---- MODULE Spec2Model ----
(***************************************************************************)
(* ShieldFi backend: risk scorer, decision engine, protection executor and *)
(* the continuous monitor, as a state machine.                             *)
(*                                                                         *)
(* Numbers are fixed point.  The providers round every quantity they       *)
(* report (toFixed), so each quantity is an integer in its own unit:       *)
(*   health factor        1/10000            (venus.js: toFixed(4))        *)
(*   impermanent loss     1/10000 of 1%      (pancakeswap: toFixed(4))     *)
(*   portfolio percentage 1/100 of 1%        (wallet: toFixed(2))          *)
(*   24h price change     1/100 of 1%                                      *)
(*   liquidity depth, USD values, balances   whole units                   *)
(*   rule threshold       basis points, as stored                          *)
(* A comparison x < t/100 of the code is the comparison of the scaled      *)
(* integers; the decimal values involved are far apart compared with the   *)
(* precision of a double, so the scaled comparison is the code's.          *)
(***************************************************************************)
EXTENDS Integers, Sequences, FiniteSets, TLC

VARIABLES
    eng,              \* one call of the pure pipeline: snapshot -> score -> decision
    activeMonitors,   \* ShieldMonitor.activeMonitors: lowercased address -> entry
    timers,           \* live setInterval handles: id -> captured (userAddress, rules)
    latestScans,      \* ShieldMonitor.latestScans: lowercased address -> scan result
    scanHistory,      \* ShieldMonitor.scanHistory: lowercased address -> results
    scans,            \* running and finished _runScan calls: id -> frame
    reply,            \* return value of the last startMonitoring / stopMonitoring
    env,              \* configuration: signer, advisor key, log contract
    chain,            \* the deployed contracts: ShieldLog and ShieldVault
    store             \* the server's session rule store (global._shieldRules)

vars == <<eng, activeMonitors, timers, latestScans, scanHistory, scans, reply, env,
          chain, store>>

(***************************************************************************)
(* Units and small helpers                                                 *)
(***************************************************************************)
HFUnit == 10000
ILUnit == 10000
PctUnit == 100

Max2(a, b) == IF a >= b THEN a ELSE b

Abs(x) == IF x < 0 THEN -x ELSE x

\* x.toFixed(k) of a non-negative quotient n/d, in units of 10^-k: nearest, half up
RoundDiv(n, d) == (2 * n + d) \div (2 * d)

RECURSIVE Sum(_)
Sum(s) == IF s = <<>> THEN 0 ELSE Head(s) + Sum(Tail(s))

RECURSIVE Maximum(_)
Maximum(s) == IF Len(s) = 1 THEN s[1] ELSE Max2(Head(s), Maximum(Tail(s)))

\* Array.prototype.find on the array of the tests' results: index of the
\* first TRUE, 0 if none
FirstTrue(tests) ==
    IF \E i \in 1..Len(tests) : tests[i]
    THEN CHOOSE i \in 1..Len(tests) : tests[i] /\ \A j \in 1..(i - 1) : ~tests[j]
    ELSE 0

(***************************************************************************)
(* Position snapshot providers (the part the scorer and the engine read)   *)
(***************************************************************************)
NoBorrowHF == 999 * HFUnit

\* venus.js calculateHealthFactor, followed by the toFixed(4) of
\* getVenusPositions.  liquidity, shortfall, totalBorrowUSD in whole USD.
calculateHealthFactor(liquidity, shortfall, totalBorrowUSD) ==
    IF totalBorrowUSD = 0 THEN NoBorrowHF
    ELSE IF shortfall > 0
         THEN IF shortfall >= totalBorrowUSD THEN 0
              ELSE RoundDiv((totalBorrowUSD - shortfall) * HFUnit, totalBorrowUSD)
    ELSE RoundDiv((totalBorrowUSD + liquidity) * HFUnit, totalBorrowUSD)

IsHeld(m) == m.supplyBalance > 0 \/ m.borrowBalance > 0

BorrowUSD(m) == m.borrowBalance

\* venus.js getVenusPositions: entered markets (price 1 USD per token),
\* account liquidity and shortfall -> the lending snapshot
getVenusPositions(entered, liquidity, shortfall) ==
    IF entered = <<>>
    THEN [markets |-> <<>>, healthFactor |-> NoBorrowHF]
    ELSE [markets |-> SelectSeq(entered, IsHeld),
          healthFactor |->
              calculateHealthFactor(liquidity, shortfall, Sum([i \in 1..Len(entered) |-> BorrowUSD(entered[i])]))]

ValueUSD(t) == t.valueUSD

\* insertion of t into a list sorted by valueUSD descending, after its equals
RECURSIVE InsertDesc(_, _)
InsertDesc(s, t) ==
    IF s = <<>> THEN <<t>>
    ELSE IF t.valueUSD > Head(s).valueUSD THEN <<t>> \o s
    ELSE <<Head(s)>> \o InsertDesc(Tail(s), t)

\* tokens.sort((a, b) => b.valueUSD - a.valueUSD), a stable sort
RECURSIVE SortDesc(_)
SortDesc(s) ==
    IF s = <<>> THEN <<>>
    ELSE InsertDesc(SortDesc(SubSeq(s, 1, Len(s) - 1)), s[Len(s)])

\* wallet provider getTokenBalances, step 6 and 7: portfolio composition.
\* held: the tokens with their USD value, 24h change and liquidity depth
getTokenBalances(held) ==
    LET total == Sum([i \in 1..Len(held) |-> ValueUSD(held[i])])
        WithPct(t) ==
            [token |-> t.token, valueUSD |-> t.valueUSD,
             priceChange24h |-> t.priceChange24h, liquidity |-> t.liquidity,
             percentage |-> IF total > 0
                            THEN RoundDiv(t.valueUSD * 100 * PctUnit, total)
                            ELSE 0]
        portfolio == SortDesc([i \in 1..Len(held) |-> WithPct(held[i])])
    IN [tokens |-> portfolio,
        maxConcentration |-> IF Len(portfolio) > 0 THEN portfolio[1].percentage ELSE 0]

(***************************************************************************)
(* Risk scorer                                                             *)
(***************************************************************************)
\* JavaScript's  x || d  on a number: 0 is falsy
OrDefault(x, d) == IF x = 0 THEN d ELSE x

scoreLiquidationProximity(healthFactor) ==
    IF healthFactor >= NoBorrowHF THEN 0
    ELSE IF healthFactor > 2 * HFUnit THEN 0
    ELSE IF 2 * healthFactor > 3 * HFUnit THEN 10
    ELSE IF 10 * healthFactor > 12 * HFUnit THEN 20
    ELSE 30

ILOf(p) == OrDefault(p.impermanentLoss, 0)

scoreImpermanentLoss_first(lpPositions) ==
    IF Len(lpPositions) = 0 THEN 0
    ELSE LET maxIL == ILOf(lpPositions[1])
         IN IF maxIL < 1 * ILUnit THEN 0
            ELSE IF maxIL < 3 * ILUnit THEN 10
            ELSE IF maxIL < 5 * ILUnit THEN 18
            ELSE 25

scoreImpermanentLoss(lpPositions) ==
    IF Len(lpPositions) = 0 THEN 0
    ELSE LET maxIL == Maximum([i \in 1..Len(lpPositions) |-> ILOf(lpPositions[i])])
         IN IF maxIL < 1 * ILUnit THEN 0
            ELSE IF maxIL < 3 * ILUnit THEN 10
            ELSE IF maxIL < 5 * ILUnit THEN 18
            ELSE 25

scoreConcentrationRisk_inclusive(walletData) ==
    LET maxConcentration == OrDefault(walletData.maxConcentration, 0)
    IN IF maxConcentration <= 30 * PctUnit THEN 0
       ELSE IF maxConcentration <= 50 * PctUnit THEN 10
       ELSE IF maxConcentration <= 70 * PctUnit THEN 15
       ELSE 20

scoreConcentrationRisk(walletData) ==
    LET maxConcentration == OrDefault(walletData.maxConcentration, 0)
    IN IF maxConcentration < 30 * PctUnit THEN 0
       ELSE IF maxConcentration < 50 * PctUnit THEN 10
       ELSE IF maxConcentration < 70 * PctUnit THEN 15
       ELSE 20

WeightedChange(t) == Abs(t.priceChange24h) * t.percentage

Weight(t) == t.percentage

\* avgVolatility = weightedVolatility / totalWeight, compared without dividing
scoreVolatilityExposure(walletData) ==
    LET tokens == walletData.tokens
        weightedVolatility == Sum([i \in 1..Len(tokens) |-> WeightedChange(tokens[i])])
        totalWeight == Sum([i \in 1..Len(tokens) |-> Weight(tokens[i])])
        Below(k) == IF totalWeight > 0
                    THEN weightedVolatility < k * PctUnit * totalWeight
                    ELSE TRUE
    IN IF Len(tokens) = 0 THEN 0
       ELSE IF Below(2) THEN 0
       ELSE IF Below(5) THEN 5
       ELSE IF Below(10) THEN 10
       ELSE 15

LowLiquidityOf(t) ==
    LET pct == t.percentage
        liq == t.liquidity
    IN (IF pct > 10 * PctUnit /\ liq < 100000 /\ liq > 0 THEN pct ELSE 0)
       + (IF pct > 5 * PctUnit /\ liq < 10000 /\ liq > 0 THEN pct * 2 ELSE 0)

scoreLiquidityRisk(walletData) ==
    LET tokens == walletData.tokens
        lowLiquidityExposure == Sum([i \in 1..Len(tokens) |-> LowLiquidityOf(tokens[i])])
    IN IF Len(tokens) = 0 THEN 0
       ELSE IF lowLiquidityExposure < 5 * PctUnit THEN 0
       ELSE IF lowLiquidityExposure < 15 * PctUnit THEN 3
       ELSE IF lowLiquidityExposure < 30 * PctUnit THEN 6
       ELSE 10

RiskLevel_strict(totalScore) ==
    IF totalScore < 15 THEN "SAFE"
    ELSE IF totalScore < 35 THEN "MODERATE"
    ELSE IF totalScore < 60 THEN "ELEVATED"
    ELSE "CRITICAL"

RiskLevel(totalScore) ==
    IF totalScore <= 15 THEN "SAFE"
    ELSE IF totalScore <= 35 THEN "MODERATE"
    ELSE IF totalScore <= 60 THEN "ELEVATED"
    ELSE "CRITICAL"

\* the object calculateRiskScore returns
RiskScoreOf(totalScore, liquidationProximity, impermanentLoss, concentrationRisk, volatilityExposure, liquidityRisk) ==
    [totalScore |-> totalScore,
     maxScore |-> 100,
     level |-> RiskLevel(totalScore),
     breakdown |->
         [liquidationProximity |-> [score |-> liquidationProximity, maxScore |-> 30],
          impermanentLoss |-> [score |-> impermanentLoss, maxScore |-> 25],
          concentrationRisk |-> [score |-> concentrationRisk, maxScore |-> 20],
          volatilityExposure |-> [score |-> volatilityExposure, maxScore |-> 15],
          liquidityRisk |-> [score |-> liquidityRisk, maxScore |-> 10]]]

calculateRiskScore_weighted(venusData, lpData, walletData) ==
    LET liquidationProximity ==
            scoreLiquidationProximity(OrDefault(venusData.healthFactor, NoBorrowHF))
        impermanentLoss == scoreImpermanentLoss(lpData)
        concentrationRisk == scoreConcentrationRisk(walletData)
        volatilityExposure == scoreVolatilityExposure(walletData)
        liquidityRisk == scoreLiquidityRisk(walletData)
    IN RiskScoreOf((3 * liquidationProximity + 2 * impermanentLoss + 2 * concentrationRisk
                    + volatilityExposure + liquidityRisk) \div 2,
                   liquidationProximity, impermanentLoss, concentrationRisk,
                   volatilityExposure, liquidityRisk)

calculateRiskScore(venusData, lpData, walletData) ==
    LET liquidationProximity ==
            scoreLiquidationProximity(OrDefault(venusData.healthFactor, NoBorrowHF))
        impermanentLoss == scoreImpermanentLoss(lpData)
        concentrationRisk == scoreConcentrationRisk(walletData)
        volatilityExposure == scoreVolatilityExposure(walletData)
        liquidityRisk == scoreLiquidityRisk(walletData)
    IN RiskScoreOf(liquidationProximity + impermanentLoss + concentrationRisk
                   + volatilityExposure + liquidityRisk,
                   liquidationProximity, impermanentLoss, concentrationRisk,
                   volatilityExposure, liquidityRisk)

(***************************************************************************)
(* Decision engine                                                         *)
(***************************************************************************)
VENUS_REPAY == 0
LP_WITHDRAW == 1
EMERGENCY_EXIT == 2
REBALANCE == 3
ALERT_ONLY == 4

VENUS_HEALTH_FACTOR == 0
IL_THRESHOLD == 1
PORTFOLIO_DROP == 2
CONCENTRATION_LIMIT == 3
CUSTOM == 4

ActionNames == <<"VENUS_REPAY", "LP_WITHDRAW", "EMERGENCY_EXIT", "REBALANCE", "ALERT_ONLY">>

\* ActionType[name] ?? ActionType.ALERT_ONLY
ActionTypeOf(name) ==
    IF \E i \in 1..Len(ActionNames) : ActionNames[i] = name
    THEN (CHOOSE i \in 1..Len(ActionNames) : ActionNames[i] = name) - 1
    ELSE ALERT_ONLY

(* JavaScript values of a flag.  "true" and "false" are the booleans,      *)
(* "absent" is undefined or null, "yes" is a non-empty string (truthy).    *)
Truthy(v) == v \in {"true", "yes"}

OrFalse_set(v) == "true"

\* v || false
OrFalse(v) == IF Truthy(v) THEN v ELSE "false"

\* a parameter of params: a string or number; "" and -1 stand for a missing one
NoParams == [tokenAddress |-> "", amount |-> -1, positionId |-> "", liquidity |-> ""]

\* null, the value aiEvaluate returns when no decision was obtained
NoDecision ==
    [actionType |-> ALERT_ONLY, actionName |-> "", urgency |-> "", shouldAct |-> "false",
     params |-> NoParams, ruleId |-> "", source |-> "NONE"]

\* The text of the advisor's reply, as a sequence of tokens: "w" is prose
\* without braces, "{" and "}" are braces, "A" and "B" are the members
\* "shouldAct", "actionType", "urgency" of two different recommendations, "P"
\* is the key "params", whose value has to be an object.  No token is a string
\* literal holding a brace.
ReplyTokens == {"w", "{", "}", "A", "B", "P"}

\* the positions of tok in text
PositionsOf(text, tok) == {i \in 1..Len(text) : text[i] = tok}

Least(S) == CHOOSE i \in S : \A j \in S : i <= j

Greatest(S) == CHOOSE i \in S : \A j \in S : j <= i

\* responseText.match(/\{[\s\S]*\}/): the leftmost "{" that a "}" follows,
\* and, the star being greedy, everything up to the last "}" of the text;
\* <<>> stands for null (no match)
jsonMatch(text) ==
    LET opens == PositionsOf(text, "{")
        closes == {i \in PositionsOf(text, "}") : opens # {} /\ i > Least(opens)}
    IN IF closes = {} THEN <<>> ELSE SubSeq(text, Least(opens), Greatest(closes))

RECURSIVE MembersEnd(_, _)
\* the grammar of a JSON object on the tokens: the position of the "}" that
\* closes the object whose members start at i, 0 when the text is not an
\* object there
MembersEnd(text, i) ==
    IF i > Len(text) THEN 0
    ELSE IF text[i] = "}" THEN i
    ELSE IF text[i] \in {"A", "B"} THEN MembersEnd(text, i + 1)
    ELSE IF text[i] = "P" /\ i < Len(text) /\ text[i + 1] = "{"
         THEN LET e == MembersEnd(text, i + 2)
              IN IF e = 0 THEN 0 ELSE MembersEnd(text, e + 1)
    ELSE 0

\* the position of the "}" closing the object that starts at i, 0 if none
ObjectEnd(text, i) ==
    IF i > Len(text) \/ text[i] # "{" THEN 0 ELSE MembersEnd(text, i + 1)

\* nesting depth of position i of an object text
DepthAt(text, i) ==
    Cardinality({j \in 1..(i - 1) : text[j] = "{"})
    - Cardinality({j \in 1..(i - 1) : text[j] = "}"})

\* the value of a well-formed object text: of a repeated key the last member
\* counts; the members of "params" in these texts are none of its parameters
ObjectValue(text) ==
    LET members == {i \in 1..Len(text) : text[i] \in {"A", "B"} /\ DepthAt(text, i) = 1}
    IN IF members = {}
       THEN [actionType |-> "", urgency |-> "", shouldAct |-> "absent", params |-> NoParams]
       ELSE IF text[Greatest(members)] = "A"
       THEN [actionType |-> "VENUS_REPAY", urgency |-> "HIGH", shouldAct |-> "true",
             params |-> NoParams]
       ELSE [actionType |-> "ALERT_ONLY", urgency |-> "LOW", shouldAct |-> "false",
             params |-> NoParams]

\* lines 87-89 of aiEvaluate on a reply text: no match is kind "prose", a match
\* that JSON.parse rejects (it has to be one object, with nothing after it) is
\* kind "malformed", else kind "json" with the parsed object
ParseReply(text) ==
    LET matched == jsonMatch(text)
    IN IF matched = <<>>
       THEN [kind |-> "prose", object |-> ObjectValue(<<>>)]
       ELSE IF ObjectEnd(matched, 1) # Len(matched)
       THEN [kind |-> "malformed", object |-> ObjectValue(<<>>)]
       ELSE [kind |-> "json", object |-> ObjectValue(matched)]

\* aiEvaluate.  apiKey: config.openrouterApiKey is set.  response: what the
\* advisor call produced: kind "error" (the call threw), "text" with the
\* reply's text, or the reply already read: "prose" (no braces in the text),
\* "malformed" (JSON.parse threw) or "json" with the parsed object.
aiEvaluate(riskScore, positions, apiKey, response) ==
    IF ~apiKey THEN NoDecision
    ELSE IF response.kind = "text" /\ ParseReply(response.text).kind # "json" THEN NoDecision
    ELSE IF response.kind \notin {"text", "json"} THEN NoDecision
    ELSE LET decision == IF response.kind = "text" THEN ParseReply(response.text).object
                         ELSE response.object
         IN [actionType |-> ActionTypeOf(decision.actionType),
             actionName |-> IF decision.actionType = "" THEN "ALERT_ONLY"
                            ELSE decision.actionType,
             urgency |-> IF decision.urgency = "" THEN "LOW" ELSE decision.urgency,
             shouldAct |-> OrFalse(decision.shouldAct),
             params |-> decision.params,
             ruleId |-> "",
             source |-> "AI"]

IsActive(r) == r.active

HasBorrow(m) == m.borrowBalance > 0

\* the params of a repayment: the first market with a borrow, and pct percent
\* of its borrow balance (amount in 1/100 of a token)
RepayParams(positions, pct) ==
    LET markets == positions.venus.markets
        b == FirstTrue([i \in 1..Len(markets) |-> HasBorrow(markets[i])])
    IN [tokenAddress |-> IF b # 0 THEN markets[b].vTokenAddress ELSE "",
        amount |-> IF b # 0 THEN markets[b].borrowBalance * pct ELSE 0,
        positionId |-> "",
        liquidity |-> ""]

RuleTriggers_firstPosition(rule, riskScore, positions) ==
    LET threshold == rule.threshold
    IN CASE rule.ruleType = VENUS_HEALTH_FACTOR ->
                LET healthFactor == OrDefault(positions.venus.healthFactor, NoBorrowHF)
                IN healthFactor * 100 < threshold * HFUnit /\ healthFactor < NoBorrowHF
         [] rule.ruleType = IL_THRESHOLD ->
                /\ Len(positions.lp) > 0
                /\ positions.lp[1].impermanentLoss * 100 > threshold * ILUnit
         [] rule.ruleType = PORTFOLIO_DROP ->
                riskScore.totalScore * 100 >= threshold
         [] rule.ruleType = CONCENTRATION_LIMIT ->
                OrDefault(positions.wallet.maxConcentration, 0) * 100 > threshold * PctUnit
         [] OTHER -> FALSE

RuleTriggers_dropStrict(rule, riskScore, positions) ==
    LET threshold == rule.threshold
    IN CASE rule.ruleType = VENUS_HEALTH_FACTOR ->
                LET healthFactor == OrDefault(positions.venus.healthFactor, NoBorrowHF)
                IN healthFactor * 100 < threshold * HFUnit /\ healthFactor < NoBorrowHF
         [] rule.ruleType = IL_THRESHOLD ->
                \E i \in 1..Len(positions.lp) :
                    positions.lp[i].impermanentLoss * 100 > threshold * ILUnit
         [] rule.ruleType = PORTFOLIO_DROP ->
                riskScore.totalScore * 100 > threshold
         [] rule.ruleType = CONCENTRATION_LIMIT ->
                OrDefault(positions.wallet.maxConcentration, 0) * 100 > threshold * PctUnit
         [] OTHER -> FALSE

RuleTriggers_concInclusive(rule, riskScore, positions) ==
    LET threshold == rule.threshold
    IN CASE rule.ruleType = VENUS_HEALTH_FACTOR ->
                LET healthFactor == OrDefault(positions.venus.healthFactor, NoBorrowHF)
                IN healthFactor * 100 < threshold * HFUnit /\ healthFactor < NoBorrowHF
         [] rule.ruleType = IL_THRESHOLD ->
                \E i \in 1..Len(positions.lp) :
                    positions.lp[i].impermanentLoss * 100 > threshold * ILUnit
         [] rule.ruleType = PORTFOLIO_DROP ->
                riskScore.totalScore * 100 >= threshold
         [] rule.ruleType = CONCENTRATION_LIMIT ->
                OrDefault(positions.wallet.maxConcentration, 0) * 100 >= threshold * PctUnit
         [] OTHER -> FALSE

\* the condition under which the switch case of the rule returns a decision
RuleTriggers(rule, riskScore, positions) ==
    LET threshold == rule.threshold
    IN CASE rule.ruleType = VENUS_HEALTH_FACTOR ->
                LET healthFactor == OrDefault(positions.venus.healthFactor, NoBorrowHF)
                IN healthFactor * 100 < threshold * HFUnit /\ healthFactor < NoBorrowHF
         [] rule.ruleType = IL_THRESHOLD ->
                \E i \in 1..Len(positions.lp) :
                    positions.lp[i].impermanentLoss * 100 > threshold * ILUnit
         [] rule.ruleType = PORTFOLIO_DROP ->
                riskScore.totalScore * 100 >= threshold
         [] rule.ruleType = CONCENTRATION_LIMIT ->
                OrDefault(positions.wallet.maxConcentration, 0) * 100 > threshold * PctUnit
         [] OTHER -> FALSE

\* the decision the switch case of a triggered rule returns
RuleDecision(rule, riskScore, positions) ==
    LET threshold == rule.threshold
        shouldAct == OrFalse(rule.autoExecute)
    IN CASE rule.ruleType = VENUS_HEALTH_FACTOR ->
                LET healthFactor == OrDefault(positions.venus.healthFactor, NoBorrowHF)
                IN [actionType |-> VENUS_REPAY, actionName |-> "VENUS_REPAY",
                    urgency |-> IF healthFactor * 10 < 11 * HFUnit
                                THEN "CRITICAL" ELSE "HIGH",
                    shouldAct |-> shouldAct,
                    params |-> RepayParams(positions, 25),
                    ruleId |-> rule.id, source |-> "RULE"]
         [] rule.ruleType = IL_THRESHOLD ->
                LET Exceeds(p) == p.impermanentLoss * 100 > threshold * ILUnit
                    highILPosition == positions.lp[FirstTrue([i \in 1..Len(positions.lp) |->
                                                             Exceeds(positions.lp[i])])]
                IN [actionType |-> LP_WITHDRAW, actionName |-> "LP_WITHDRAW",
                    urgency |-> IF highILPosition.impermanentLoss > 10 * ILUnit
                                THEN "CRITICAL" ELSE "HIGH",
                    shouldAct |-> shouldAct,
                    params |-> [tokenAddress |-> "", amount |-> -1,
                                positionId |-> highILPosition.positionId,
                                liquidity |-> highILPosition.liquidity],
                    ruleId |-> rule.id, source |-> "RULE"]
         [] rule.ruleType = PORTFOLIO_DROP ->
                [actionType |-> EMERGENCY_EXIT, actionName |-> "EMERGENCY_EXIT",
                 urgency |-> "CRITICAL",
                 shouldAct |-> shouldAct,
                 params |-> NoParams,
                 ruleId |-> rule.id, source |-> "RULE"]
         [] rule.ruleType = CONCENTRATION_LIMIT ->
                LET maxConcentration == OrDefault(positions.wallet.maxConcentration, 0)
                    tokens == positions.wallet.tokens
                IN [actionType |-> REBALANCE, actionName |-> "REBALANCE",
                    urgency |-> IF maxConcentration > 80 * PctUnit
                                THEN "HIGH" ELSE "MEDIUM",
                    shouldAct |-> shouldAct,
                    params |-> [tokenAddress |-> IF Len(tokens) > 0
                                                 THEN tokens[1].token ELSE "",
                                amount |-> -1, positionId |-> "", liquidity |-> ""],
                    ruleId |-> rule.id, source |-> "RULE"]

\* the default checks that follow the loop over the rules
DefaultDecision(riskScore, positions) ==
    LET healthFactor == OrDefault(positions.venus.healthFactor, NoBorrowHF)
    IN IF healthFactor * 10 < 11 * HFUnit /\ healthFactor < NoBorrowHF
       THEN [actionType |-> VENUS_REPAY, actionName |-> "VENUS_REPAY",
             urgency |-> "CRITICAL", shouldAct |-> "false",
             params |-> RepayParams(positions, 50),
             ruleId |-> "", source |-> "DEFAULT"]
       ELSE IF riskScore.totalScore >= 60
       THEN [actionType |-> ALERT_ONLY, actionName |-> "ALERT_ONLY",
             urgency |-> "HIGH", shouldAct |-> "false",
             params |-> NoParams, ruleId |-> "", source |-> "DEFAULT"]
       ELSE [actionType |-> ALERT_ONLY, actionName |-> "ALERT_ONLY",
             urgency |-> "LOW", shouldAct |-> "false",
             params |-> NoParams, ruleId |-> "", source |-> "DEFAULT"]

\* the loop  for (const rule of activeRules)  from its i-th rule on
RECURSIVE EvaluateFrom(_, _, _, _)
EvaluateFrom(activeRules, i, riskScore, positions) ==
    IF i > Len(activeRules) THEN DefaultDecision(riskScore, positions)
    ELSE IF RuleTriggers(activeRules[i], riskScore, positions)
         THEN RuleDecision(activeRules[i], riskScore, positions)
         ELSE EvaluateFrom(activeRules, i + 1, riskScore, positions)

ruleBasedEvaluate(riskScore, positions, rules) ==
    EvaluateFrom(SelectSeq(rules, IsActive), 1, riskScore, positions)

\* whether evaluateAndDecide calls the advisor
ConsultsAdvisor(riskScore, apiKey) == riskScore.totalScore >= 25 /\ apiKey

evaluateAndDecide_defaultOnFailure(riskScore, positions, rules, apiKey, response) ==
    LET aiDecision == aiEvaluate(riskScore, positions, apiKey, response)
    IN IF ConsultsAdvisor(riskScore, apiKey)
       THEN IF aiDecision # NoDecision THEN aiDecision
            ELSE DefaultDecision(riskScore, positions)
       ELSE ruleBasedEvaluate(riskScore, positions, rules)

evaluateAndDecide(riskScore, positions, rules, apiKey, response) ==
    LET aiDecision == aiEvaluate(riskScore, positions, apiKey, response)
    IN IF ConsultsAdvisor(riskScore, apiKey) /\ aiDecision # NoDecision
       THEN aiDecision
       ELSE ruleBasedEvaluate(riskScore, positions, rules)

(***************************************************************************)
(* Protection executor                                                     *)
(*                                                                         *)
(* signer: "ok", "none" (PRIVATE_KEY not set: getSigner returns null) or   *)
(* "bad" (PRIVATE_KEY malformed: getSigner throws).  out: the outcome of   *)
(* each external call, TRUE when the transaction is mined, FALSE when the  *)
(* call or its wait() throws.  calls: the external calls made, in order.   *)
(***************************************************************************)
VBNB == "vBNB"

Failure(error, action, calls) ==
    [threw |-> FALSE, success |-> "false", error |-> error, action |-> action,
     txHash |-> "", reason |-> "", calls |-> calls]

Success(action, txHash, calls) ==
    [threw |-> FALSE, success |-> "true", error |-> "", action |-> action,
     txHash |-> txHash, reason |-> "", calls |-> calls]

\* getSigner() threw outside of any try block
Thrown ==
    [threw |-> TRUE, success |-> "absent", error |-> "invalid private key", action |-> "",
     txHash |-> "", reason |-> "", calls |-> <<>>]

executeVenusRepay_retries(vTokenAddress, amount, signer, out) ==
    IF signer = "bad" THEN Thrown
    ELSE IF signer = "none"
    THEN Failure("No signer available (PRIVATE_KEY not set)", "", <<>>)
    ELSE IF vTokenAddress = VBNB
    THEN IF out.repay THEN Success("VENUS_REPAY", "tx:repayBorrow", <<"repayBorrow">>)
         ELSE Failure("call failed", "VENUS_REPAY", <<"repayBorrow", "repayBorrow">>)
    ELSE IF ~out.approve THEN Failure("call failed", "VENUS_REPAY", <<"approve">>)
    ELSE IF out.repay
    THEN Success("VENUS_REPAY", "tx:repayBorrow", <<"approve", "repayBorrow">>)
    ELSE Failure("call failed", "VENUS_REPAY",
                 <<"approve", "repayBorrow", "repayBorrow">>)

executeVenusRepay(vTokenAddress, amount, signer, out) ==
    IF signer = "bad" THEN Thrown
    ELSE IF signer = "none"
    THEN Failure("No signer available (PRIVATE_KEY not set)", "", <<>>)
    ELSE IF vTokenAddress = VBNB
    THEN IF out.repay THEN Success("VENUS_REPAY", "tx:repayBorrow", <<"repayBorrow">>)
         ELSE Failure("call failed", "VENUS_REPAY", <<"repayBorrow">>)
    ELSE IF ~out.approve THEN Failure("call failed", "VENUS_REPAY", <<"approve">>)
    ELSE IF out.repay
    THEN Success("VENUS_REPAY", "tx:repayBorrow", <<"approve", "repayBorrow">>)
    ELSE Failure("call failed", "VENUS_REPAY", <<"approve", "repayBorrow">>)

executeLPWithdraw(positionId, liquidity, signer, out) ==
    IF signer = "bad" THEN Thrown
    ELSE IF signer = "none"
    THEN Failure("No signer available (PRIVATE_KEY not set)", "", <<>>)
    ELSE IF ~out.decrease
    THEN Failure("call failed", "LP_WITHDRAW", <<"decreaseLiquidity">>)
    ELSE IF ~out.collect
    THEN Failure("call failed", "LP_WITHDRAW", <<"decreaseLiquidity", "collect">>)
    ELSE Success("LP_WITHDRAW", "tx:decreaseLiquidity", <<"decreaseLiquidity", "collect">>)

\* no record was handed to the log
NoAudit ==
    [actionType |-> -1, riskScoreBefore |-> 0, riskScoreAfter |-> 0,
     amountProtected |-> 0, tokenInvolved |-> ""]

\* logProtectionAction: the logAction call it makes, if any, and its arguments
\* (risk scores in basis points)
logProtectionAction(actionData, signer, shieldLog, out) ==
    IF ~shieldLog \/ signer # "ok"
    THEN [success |-> FALSE, calls |-> <<>>, audit |-> NoAudit]
    ELSE [success |-> out.log, calls |-> <<"logAction">>,
          audit |-> [actionType |-> actionData.actionType,
                     riskScoreBefore |-> actionData.riskScoreBefore * 100,
                     riskScoreAfter |-> actionData.riskScoreAfter100,
                     amountProtected |-> actionData.amountProtected,
                     tokenInvolved |-> actionData.tokenInvolved]]

\* scanResult.executionResult = null
NullResult ==
    [present |-> FALSE, executed |-> FALSE, success |-> "absent", error |-> "",
     action |-> "", txHash |-> "", reason |-> ""]

\* executeDecision past its first check: the switch over the action type, the
\* log of a successful action, and the returned value
ExecuteAction(decision, riskScoreBefore, cfg, out) ==
    LET p == decision.params
        result ==
            CASE decision.actionType = VENUS_REPAY ->
                    IF p.tokenAddress # "" /\ p.amount # -1
                    THEN executeVenusRepay(p.tokenAddress, p.amount, cfg.signer, out)
                    ELSE Failure("Missing token address or amount", "", <<>>)
              [] decision.actionType = LP_WITHDRAW ->
                    IF p.positionId # "" /\ p.liquidity # ""
                    THEN executeLPWithdraw(p.positionId, p.liquidity, cfg.signer, out)
                    ELSE Failure("Missing position ID or liquidity", "", <<>>)
              [] decision.actionType = EMERGENCY_EXIT ->
                    Failure("Emergency exit requires manual review. Alert sent.", "", <<>>)
              [] decision.actionType = REBALANCE ->
                    Failure("Rebalance requires manual review. Alert sent.", "", <<>>)
              [] OTHER ->
                    [threw |-> FALSE, success |-> "absent", error |-> "", action |-> "",
                     txHash |-> "", reason |-> "Alert-only action", calls |-> <<>>]
        logged ==
            IF result.success = "true"
            THEN logProtectionAction(
                     [actionType |-> decision.actionType,
                      riskScoreBefore |-> riskScoreBefore,
                      riskScoreAfter100 |-> riskScoreBefore * 70,
                      amountProtected |-> IF p.amount = -1 THEN 0 ELSE p.amount,
                      tokenInvolved |-> p.tokenAddress],
                     cfg.signer, cfg.shieldLog, out)
            ELSE [success |-> FALSE, calls |-> <<>>, audit |-> NoAudit]
    IN IF result.threw
       THEN [threw |-> TRUE, calls |-> <<>>, audit |-> NoAudit, logged |-> FALSE,
             result |-> NullResult]
       ELSE [threw |-> FALSE,
             calls |-> result.calls \o logged.calls,
             audit |-> logged.audit,
             logged |-> logged.success,
             result |-> [present |-> TRUE, executed |-> TRUE, success |-> result.success,
                         error |-> result.error, action |-> result.action,
                         txHash |-> result.txHash, reason |-> result.reason]]

\* the value of executeDecision for a decision that is not to be acted on
Declined ==
    [threw |-> FALSE, calls |-> <<>>, audit |-> NoAudit, logged |-> FALSE,
     result |-> [present |-> TRUE, executed |-> FALSE, success |-> "absent",
                 error |-> "", action |-> "", txHash |-> "",
                 reason |-> "Decision engine recommends no auto-execution"]]

executeDecision_exitSwaps(decision, riskScoreBefore, cfg, out) ==
    IF ~Truthy(decision.shouldAct) THEN Declined
    ELSE IF decision.actionType = EMERGENCY_EXIT /\ cfg.signer = "ok"
    THEN [threw |-> FALSE, calls |-> <<"exactInputSingle">>, audit |-> NoAudit,
          logged |-> FALSE,
          result |-> [present |-> TRUE, executed |-> TRUE, success |-> "true",
                      error |-> "", action |-> "EMERGENCY_SWAP",
                      txHash |-> "tx:exactInputSingle", reason |-> ""]]
    ELSE ExecuteAction(decision, riskScoreBefore, cfg, out)

executeDecision_alertLogs(decision, riskScoreBefore, cfg, out) ==
    IF ~Truthy(decision.shouldAct) THEN Declined
    ELSE LET e == ExecuteAction(decision, riskScoreBefore, cfg, out)
         IN IF decision.actionType = ALERT_ONLY /\ cfg.signer = "ok" /\ cfg.shieldLog
            THEN [e EXCEPT !.calls = <<"logAction">>, !.logged = out.log,
                           !.audit = [actionType |-> ALERT_ONLY,
                                      riskScoreBefore |-> riskScoreBefore * 100,
                                      riskScoreAfter |-> riskScoreBefore * 70,
                                      amountProtected |-> 0,
                                      tokenInvolved |-> ""]]
            ELSE e

executeDecision_logsFailures(decision, riskScoreBefore, cfg, out) ==
    IF ~Truthy(decision.shouldAct) THEN Declined
    ELSE LET e == ExecuteAction(decision, riskScoreBefore, cfg, out)
         IN IF ~e.threw /\ e.result.success = "false" /\ e.calls # <<>> /\ cfg.shieldLog
            THEN [e EXCEPT !.calls = @ \o <<"logAction">>, !.logged = out.log,
                           !.audit = [actionType |-> decision.actionType,
                                      riskScoreBefore |-> riskScoreBefore * 100,
                                      riskScoreAfter |-> riskScoreBefore * 70,
                                      amountProtected |-> 0,
                                      tokenInvolved |-> decision.params.tokenAddress]]
            ELSE e

executeDecision_logFatal(decision, riskScoreBefore, cfg, out) ==
    IF ~Truthy(decision.shouldAct) THEN Declined
    ELSE LET e == ExecuteAction(decision, riskScoreBefore, cfg, out)
         IN IF ~e.threw /\ e.result.success = "true" /\ ~(cfg.shieldLog /\ out.log)
            THEN [e EXCEPT !.result.success = "false", !.result.txHash = "",
                           !.result.error = "call failed"]
            ELSE e

executeDecision_unguarded(decision, riskScoreBefore, cfg, out) ==
    ExecuteAction(decision, riskScoreBefore, cfg, out)

\* executeDecision.  The value has the returned execution result (executed,
\* and the fields of its result), threw when the call rejected instead, the
\* external calls made in order, and the record handed to the log.
executeDecision(decision, riskScoreBefore, cfg, out) ==
    IF ~Truthy(decision.shouldAct)
    THEN [threw |-> FALSE, calls |-> <<>>, audit |-> NoAudit, logged |-> FALSE,
          result |-> [present |-> TRUE, executed |-> FALSE, success |-> "absent",
                      error |-> "", action |-> "", txHash |-> "",
                      reason |-> "Decision engine recommends no auto-execution"]]
    ELSE ExecuteAction(decision, riskScoreBefore, cfg, out)

(***************************************************************************)
(* The deployed contracts ShieldLog and ShieldVault.  Amounts are whole    *)
(* tokens and the width of uint256 is scaled down to UintMax, so that an   *)
(* overflowing sum is within reach.  Arithmetic is checked (solidity 0.8): *)
(* a transaction whose sum overflows or whose require fails reverts, and a *)
(* reverted transaction leaves the contract as it was.                     *)
(***************************************************************************)
toLowerCase(a) ==
    CASE a = "0xAA" -> "0xaa"
      [] a = "0xBB" -> "0xbb"
      [] OTHER -> a

Has(map, k) == k \in DOMAIN map

\* Map.set
Put(map, k, v) == [x \in DOMAIN map \cup {k} |-> IF x = k THEN v ELSE map[x]]

\* Map.delete
Delete(map, k) == [x \in DOMAIN map \ {k} |-> map[x]]

UintMax == 1000000

ZeroAddress == "0x0"

\* the address of the wallet made from PRIVATE_KEY: the sender of every
\* transaction of the backend
AgentAddress == "0xa6"

\* a mapping to uint256 reads 0 at a key never written
Balance(map, k) == IF k \in DOMAIN map THEN map[k] ELSE 0

\* a mapping to uint256[] reads the empty array at a key never written
IdsOf(map, k) == IF k \in DOMAIN map THEN map[k] ELSE <<>>

\* ShieldLog after deployment
EmptyLog ==
    [actions |-> <<>>, userActions |-> <<>>, totalProtected |-> <<>>,
     actionsCount |-> <<>>]

logAction_wraps(log, sender, actionType, riskScoreBefore, riskScoreAfter, amountProtected, reasoningHash, tokenInvolved, timestamp) ==
    [actions |-> Append(log.actions,
                        [user |-> sender, actionType |-> actionType,
                         riskScoreBefore |-> riskScoreBefore,
                         riskScoreAfter |-> riskScoreAfter,
                         amountProtected |-> amountProtected,
                         reasoningHash |-> reasoningHash,
                         tokenInvolved |-> tokenInvolved, timestamp |-> timestamp]),
     userActions |-> Put(log.userActions, sender,
                         Append(IdsOf(log.userActions, sender), Len(log.actions))),
     totalProtected |-> Put(log.totalProtected, sender,
                            (Balance(log.totalProtected, sender) + amountProtected)
                            % (UintMax + 1)),
     actionsCount |-> Put(log.actionsCount, sender,
                          Balance(log.actionsCount, sender) + 1)]

\* ShieldLog.logAction sent by sender in a block of the given timestamp.  The
\* id of an action is its index in actions, counted from 0.
logAction(log, sender, actionType, riskScoreBefore, riskScoreAfter, amountProtected, reasoningHash, tokenInvolved, timestamp) ==
    LET actionId == Len(log.actions)
        newAction == [user |-> sender, actionType |-> actionType,
                      riskScoreBefore |-> riskScoreBefore,
                      riskScoreAfter |-> riskScoreAfter,
                      amountProtected |-> amountProtected,
                      reasoningHash |-> reasoningHash,
                      tokenInvolved |-> tokenInvolved, timestamp |-> timestamp]
    IN IF Balance(log.totalProtected, sender) + amountProtected > UintMax
       THEN log
       ELSE [actions |-> Append(log.actions, newAction),
             userActions |-> Put(log.userActions, sender,
                                 Append(IdsOf(log.userActions, sender), actionId)),
             totalProtected |-> Put(log.totalProtected, sender,
                                    Balance(log.totalProtected, sender)
                                    + amountProtected),
             actionsCount |-> Put(log.actionsCount, sender,
                                  Balance(log.actionsCount, sender) + 1)]

\* ShieldLog.getUserActions
getUserActions(log, user) ==
    LET actionIds == IdsOf(log.userActions, user)
    IN [i \in 1..Len(actionIds) |-> log.actions[actionIds[i] + 1]]

\* ShieldVault after deployment by owner; tokenDeposits is keyed by the pair
\* of user and token.  approved: the routers the vault has given an
\* allowance over one of its tokens and then called
EmptyVault(owner) ==
    [tokenDeposits |-> <<>>, shieldAgent |-> ZeroAddress, owner |-> owner,
     approved |-> {}]

\* ShieldVault.depositToken.  pulled: safeTransferFrom succeeds
depositToken(vault, sender, token, amount, pulled) ==
    IF token = ZeroAddress \/ amount <= 0 \/ ~pulled
       \/ Balance(vault.tokenDeposits, <<sender, token>>) + amount > UintMax
    THEN vault
    ELSE [vault EXCEPT !.tokenDeposits =
              Put(@, <<sender, token>>, Balance(@, <<sender, token>>) + amount)]

\* ShieldVault.withdrawToken.  sent: safeTransfer succeeds
withdrawToken(vault, sender, token, amount, sent) ==
    IF token = ZeroAddress \/ amount <= 0 \/ ~sent
       \/ Balance(vault.tokenDeposits, <<sender, token>>) < amount
    THEN vault
    ELSE [vault EXCEPT !.tokenDeposits =
              Put(@, <<sender, token>>, Balance(@, <<sender, token>>) - amount)]

\* ShieldVault.executeProtection.  amountOut: what exactInputSingle of the
\* router returns, -1 when the call reverts
executeProtection(vault, sender, user, tokenIn, tokenOut, amountIn, router, amountOut) ==
    LET deducted == Put(vault.tokenDeposits, <<user, tokenIn>>,
                        Balance(vault.tokenDeposits, <<user, tokenIn>>) - amountIn)
    IN IF sender # vault.shieldAgent \/ user = ZeroAddress \/ router = ZeroAddress
          \/ amountIn <= 0
          \/ Balance(vault.tokenDeposits, <<user, tokenIn>>) < amountIn
          \/ amountOut < 0
          \/ Balance(deducted, <<user, tokenOut>>) + amountOut > UintMax
       THEN vault
       ELSE [vault EXCEPT !.tokenDeposits =
                 Put(deducted, <<user, tokenOut>>,
                     Balance(deducted, <<user, tokenOut>>) + amountOut),
                          !.approved = @ \cup {router}]

\* ShieldVault.setAgent
setAgent(vault, sender, agent) ==
    IF sender # vault.owner \/ agent = ZeroAddress
    THEN vault
    ELSE [vault EXCEPT !.shieldAgent = agent]

\* the log once the logAction transaction of an execution is mined: sent by
\* the agent's wallet, in the block after the last logged action
Mined(log, execution) ==
    IF execution.logged
    THEN logAction(log, AgentAddress, execution.audit.actionType,
                   execution.audit.riskScoreBefore, execution.audit.riskScoreAfter,
                   execution.audit.amountProtected, "keccak256(reasoning)",
                   IF execution.audit.tokenInvolved = "" THEN ZeroAddress
                   ELSE execution.audit.tokenInvolved,
                   Len(log.actions) + 1)
    ELSE log

(***************************************************************************)
(* Inputs: what the external world hands to the program                    *)
(***************************************************************************)
Market(vTokenAddress, supplyBalance, borrowBalance) ==
    [vTokenAddress |-> vTokenAddress, supplyBalance |-> supplyBalance,
     borrowBalance |-> borrowBalance]

Tok(token, valueUSD, priceChange24h, liquidity) ==
    [token |-> token, valueUSD |-> valueUSD, priceChange24h |-> priceChange24h,
     liquidity |-> liquidity]

LP(positionId, impermanentLoss) ==
    [positionId |-> positionId, liquidity |-> "1000", impermanentLoss |-> impermanentLoss]

OneBorrow == <<Market("vUSDT", 200, 100)>>

TwoBorrows == <<Market(VBNB, 300, 20), Market("vUSDT", 0, 80)>>

\* lending snapshots with a borrow of 100 USD: health factors 0, 0.4, 0.99,
\* 1.0, 1.05, 1.1, 1.2, 1.21, 1.5, 1.51, 2.0, 2.01, 2.5; and accounts
\* without a borrow (health factor 999)
VenusSnapshots ==
    {getVenusPositions(<<>>, 0, 0), getVenusPositions(<<Market(VBNB, 50, 0)>>, 25, 0)}
    \cup {getVenusPositions(OneBorrow, l, 0) :
              l \in {0, 5, 10, 20, 21, 50, 51, 100, 101, 150}}
    \cup {getVenusPositions(OneBorrow, 0, sh) : sh \in {1, 60, 100}}
    \cup {getVenusPositions(TwoBorrows, 5, 0)}

ILValues == {0, 5000, 9999, 10000, 29999, 30000, 42000, 49999, 50000, 120000}

LPSnapshots ==
    {<<>>}
    \cup {<<LP("7", il)>> : il \in ILValues}
    \cup {<<LP("7", a), LP("9", b)>> : a, b \in {5000, 42000, 120000}}

\* wallets of two holdings worth 10000 USD together, of four holdings, of
\* one holding without a price, and the empty wallet
HeldLists ==
    {<<>>, <<Tok("DUST", 0, 0, 0)>>,
     <<Tok("CAKE", 9000, -1500, 5000), Tok("BNB", 1000, 0, 1000000)>>,
     <<Tok("BNB", 2500, 100, 1000000), Tok("CAKE", 2500, -900, 50000),
       Tok("ETH", 2500, 0, 1000000), Tok("XVS", 2500, 400, 5000)>>,
     <<Tok("BNB", 2999, 0, 1000000), Tok("CAKE", 2999, 0, 1000000),
       Tok("ETH", 2999, 0, 1000000), Tok("XVS", 1003, 0, 1000000)>>,
     <<Tok("BNB", 2500, 0, 1000000), Tok("CAKE", 3000, 0, 1000000),
       Tok("ETH", 4500, 0, 1000000)>>,
     <<Tok("BNB", 3000, 0, 1000000), Tok("CAKE", 3000, 0, 1000000),
       Tok("ETH", 3000, 0, 1000000), Tok("XVS", 1000, 0, 1000000)>>,
     <<Tok("BNB", 4999, 0, 1000000), Tok("CAKE", 2501, 0, 1000000),
       Tok("ETH", 2500, 0, 1000000)>>}
    \cup {<<Tok("BNB", a, chg, 1000000), Tok("CAKE", 10000 - a, 100, liq)>> :
              a \in {3000, 4900, 5000, 5001, 6999, 7000, 8500, 9400, 9600},
              chg \in {0, -300, 1200},
              liq \in {0, 5000, 50000, 1000000}}

WalletSnapshots == {getTokenBalances(h) : h \in HeldLists}

Positions(venus, lp, wallet) == [venus |-> venus, lp |-> lp, wallet |-> wallet]

Rule(id, ruleType, threshold, autoExecute, active) ==
    [id |-> id, ruleType |-> ruleType, threshold |-> threshold,
     autoExecute |-> autoExecute, active |-> active]

\* the threshold the rules of each type are given here, in basis points
ThresholdOf(ruleType) ==
    CASE ruleType = VENUS_HEALTH_FACTOR -> 150
      [] ruleType = IL_THRESHOLD -> 500
      [] ruleType = PORTFOLIO_DROP -> 4000
      [] ruleType = CONCENTRATION_LIMIT -> 4000
      [] OTHER -> 100

RulesWithId(id) ==
    {Rule(id, t, ThresholdOf(t), auto, act) :
         t \in VENUS_HEALTH_FACTOR..CUSTOM, auto \in {"true", "false"}, act \in BOOLEAN}

MaxRules == 2

RECURSIVE RuleListsOfLen(_)
RuleListsOfLen(n) ==
    IF n = 0 THEN {<<>>}
    ELSE {Append(l, r) : l \in RuleListsOfLen(n - 1),
                         r \in RulesWithId(<<"r1", "r2", "r3", "r4">>[n])}

RuleLists == UNION {RuleListsOfLen(n) : n \in 0..MaxRules}

Outcome(approve, repay, decrease, collect, log) ==
    [approve |-> approve, repay |-> repay, decrease |-> decrease,
     collect |-> collect, log |-> log]

\* all calls succeed, or exactly one kind of call fails
Outcomes ==
    {Outcome(TRUE, TRUE, TRUE, TRUE, TRUE), Outcome(FALSE, TRUE, TRUE, TRUE, TRUE),
     Outcome(TRUE, FALSE, TRUE, TRUE, TRUE), Outcome(TRUE, TRUE, FALSE, TRUE, TRUE),
     Outcome(TRUE, TRUE, TRUE, FALSE, TRUE), Outcome(TRUE, TRUE, TRUE, TRUE, FALSE)}

Config(signer, apiKey, shieldLog) ==
    [signer |-> signer, apiKey |-> apiKey, shieldLog |-> shieldLog]

AdvisorObject(actionType, urgency, shouldAct, params) ==
    [kind |-> "json",
     object |-> [actionType |-> actionType, urgency |-> urgency,
                 shouldAct |-> shouldAct, params |-> params]]

NoObject == [actionType |-> "", urgency |-> "", shouldAct |-> "absent", params |-> NoParams]

NoResponse == [kind |-> "none", object |-> NoObject]

AdvisorResponses ==
    {[kind |-> k, object |-> NoObject] : k \in {"error", "prose", "malformed"}}
    \cup {AdvisorObject(a, "HIGH", sa, NoParams) :
              a \in {"EMERGENCY_EXIT", "ALERT_ONLY", "SELL_ALL", ""},
              sa \in {"true", "false", "absent", "yes"}}
    \cup {AdvisorObject("VENUS_REPAY", "", sa,
                        [tokenAddress |-> "vUSDT", amount |-> 2500,
                         positionId |-> "", liquidity |-> ""]) :
              sa \in {"true", "false"}}
    \cup {AdvisorObject("LP_WITHDRAW", "CRITICAL", "true",
                        [tokenAddress |-> "", amount |-> -1,
                         positionId |-> "7", liquidity |-> ""]),
          AdvisorObject("VENUS_REPAY", "HIGH", "true", NoParams)}

(***************************************************************************)
(* The pipeline called once, outside of the monitor: score, decide,        *)
(* execute (evaluateProtection of core.js runs the first two; the executor *)
(* is an exported function of its module).                                 *)
(***************************************************************************)
NoScore == [totalScore |-> -1, maxScore |-> 100, level |-> "",
            breakdown |->
                [liquidationProximity |-> [score |-> 0, maxScore |-> 30],
                 impermanentLoss |-> [score |-> 0, maxScore |-> 25],
                 concentrationRisk |-> [score |-> 0, maxScore |-> 20],
                 volatilityExposure |-> [score |-> 0, maxScore |-> 15],
                 liquidityRisk |-> [score |-> 0, maxScore |-> 10]]]

NoExecution ==
    [threw |-> FALSE, calls |-> <<>>, audit |-> NoAudit, logged |-> FALSE,
     result |-> NullResult]

EngineInput(positions, rules, response) ==
    [stage |-> "input", positions |-> positions, rules |-> rules, response |-> response,
     riskScore |-> NoScore, decision |-> NoDecision, execution |-> NoExecution]

EngineIdle ==
    [stage |-> "idle", positions |-> Positions(getVenusPositions(<<>>, 0, 0), <<>>,
                                               getTokenBalances(<<>>)),
     rules |-> <<>>, response |-> NoResponse,
     riskScore |-> NoScore, decision |-> NoDecision, execution |-> NoExecution]

\* global._shieldRules before the first rule is created
EmptyStore == [rules |-> <<>>, now |-> 0]

\* the contracts after deployment
Deployed == [log |-> EmptyLog, vault |-> EmptyVault("0x0e")]

MonitorIdle ==
    /\ chain = Deployed
    /\ store = EmptyStore
    /\ activeMonitors = <<>>
    /\ timers = <<>>
    /\ latestScans = <<>>
    /\ scanHistory = <<>>
    /\ scans = <<>>
    /\ reply = [op |-> "none", success |-> FALSE]

UnchangedMonitor ==
    UNCHANGED <<activeMonitors, timers, latestScans, scanHistory, scans, reply, env,
                store>>

\* calculateRiskScore(venusData, lpData, walletData) on the snapshot
Score ==
    /\ eng.stage = "input"
    /\ eng' = [eng EXCEPT !.stage = "scored",
                          !.riskScore = calculateRiskScore(eng.positions.venus,
                                                           eng.positions.lp,
                                                           eng.positions.wallet)]
    /\ UNCHANGED chain
    /\ UnchangedMonitor

\* evaluateAndDecide(riskScore, positions, rules)
Decide ==
    /\ eng.stage = "scored"
    /\ eng' = [eng EXCEPT !.stage = "decided",
                          !.decision = evaluateAndDecide(eng.riskScore, eng.positions,
                                                         eng.rules, env.apiKey,
                                                         eng.response)]
    /\ UNCHANGED chain
    /\ UnchangedMonitor

\* executeDecision(decision, riskScore.totalScore)
Execute(out) ==
    /\ eng.stage = "decided"
    /\ eng' = [eng EXCEPT !.stage = "executed",
                          !.execution = executeDecision(eng.decision,
                                                        eng.riskScore.totalScore,
                                                        env, out)]
    /\ chain' = [chain EXCEPT !.log = Mined(@, eng'.execution)]
    /\ UnchangedMonitor

NextEngine ==
    \/ Score
    \/ Decide
    \/ \E out \in Outcomes : Execute(out)

\* every snapshot, scored; no rules and no advisor
InitScore ==
    /\ MonitorIdle
    /\ env = Config("ok", FALSE, TRUE)
    /\ eng \in {EngineInput(Positions(v, l, w), <<>>, NoResponse) :
                    v \in VenusSnapshots, l \in LPSnapshots, w \in WalletSnapshots}

SpecScore == InitScore /\ [][NextEngine]_vars

\* snapshots for the decisions: health factor none, 0, 1.05 (vBNB), 1.2, 1.5
\* (two borrows); no position, one with 4.2% loss, two with 3% and 12%;
\* wallets empty, 45% and 90% concentrated
DecideSnapshots ==
    {Positions(v, l, getTokenBalances(h)) :
         v \in {getVenusPositions(<<>>, 0, 0), getVenusPositions(OneBorrow, 0, 100),
                getVenusPositions(<<Market(VBNB, 200, 100)>>, 5, 0),
                getVenusPositions(OneBorrow, 20, 0), getVenusPositions(TwoBorrows, 50, 0)},
         l \in {<<>>, <<LP("7", 42000)>>, <<LP("7", 30000), LP("9", 120000)>>},
         h \in {<<>>,
                <<Tok("BNB", 2500, 0, 1000000), Tok("CAKE", 3000, 0, 1000000),
                  Tok("ETH", 4500, 0, 1000000)>>,
                <<Tok("CAKE", 9000, -1500, 5000), Tok("BNB", 1000, 0, 1000000)>>}}

\* rule lists stored for an address by the server
StoredRules ==
    {<<>>,
     <<Rule("r1", VENUS_HEALTH_FACTOR, 150, "true", TRUE),
       Rule("r2", IL_THRESHOLD, 500, "true", TRUE)>>,
     <<Rule("r1", IL_THRESHOLD, 500, "true", TRUE),
       Rule("r2", PORTFOLIO_DROP, 7000, "false", TRUE)>>}

\* every rule list on every snapshot without the advisor; the stored rule
\* lists with every advisor response and every configuration of the executor
InitDecide ==
    /\ MonitorIdle
    /\ \/ /\ env = Config("ok", FALSE, TRUE)
          /\ eng \in {EngineInput(p, r, NoResponse) :
                          p \in DecideSnapshots, r \in RuleLists}
       \/ /\ env \in {Config(sg, TRUE, lg) :
                          sg \in {"ok", "none", "bad"}, lg \in BOOLEAN}
          /\ eng \in {EngineInput(p, r, a) :
                          p \in DecideSnapshots, r \in StoredRules, a \in AdvisorResponses}

SpecDecide == InitDecide /\ [][NextEngine]_vars

\* lending snapshots around the thresholds of the rules: no borrow; health
\* factors 0, 1.04, 1.05, 1.09, 1.1, 1.49, 1.5 on one borrow; 1.2 on two
\* borrows with the smaller or the larger one first, after a market that is
\* only supplied
RuleVenus ==
    {getVenusPositions(<<>>, 0, 0), getVenusPositions(OneBorrow, 0, 100)}
    \cup {getVenusPositions(OneBorrow, l, 0) : l \in {4, 5, 9, 10, 49, 50}}
    \cup {getVenusPositions(TwoBorrows, 20, 0),
          getVenusPositions(<<Market("vETH", 40, 0), Market("vUSDT", 0, 80),
                              Market(VBNB, 300, 20)>>, 20, 0)}

\* position lists around the loss thresholds 5% and 10%, the positions of a
\* list differing in liquidity
RuleLPs ==
    {<<>>}
    \cup {<<LP("7", il)>> : il \in {42000, 50000, 50001, 100000, 100001}}
    \cup {<<LP("7", 30000), [LP("9", 120000) EXCEPT !.liquidity = "2500"]>>,
          <<LP("7", 120000), [LP("9", 60000) EXCEPT !.liquidity = "2500"]>>,
          <<LP("7", 60000), [LP("9", 120000) EXCEPT !.liquidity = "2500"]>>}

\* wallets whose largest allocation is 0, 40.00, 40.01, 80.00, 80.01 and 90
\* percent, the last one in a falling token of little depth
RuleWallets ==
    {getTokenBalances(h) :
         h \in {<<>>,
                <<Tok("BNB", 4000, 0, 1000000), Tok("CAKE", 3000, 0, 1000000),
                  Tok("ETH", 3000, 0, 1000000)>>,
                <<Tok("BNB", 4001, 0, 1000000), Tok("CAKE", 2999, 0, 1000000),
                  Tok("ETH", 3000, 0, 1000000)>>,
                <<Tok("BNB", 8000, 0, 1000000), Tok("CAKE", 2000, 0, 1000000)>>,
                <<Tok("BNB", 8001, 0, 1000000), Tok("CAKE", 1999, 0, 1000000)>>,
                <<Tok("CAKE", 9000, -1500, 5000), Tok("BNB", 1000, 0, 1000000)>>}}

\* snapshots varying the lending account, the positions and the wallet, two
\* of the three at a time, and snapshots with totals from 20 to 68
RuleSnapshots ==
    {Positions(v, l, w) :
         v \in RuleVenus, l \in {<<>>, <<LP("7", 42000)>>},
         w \in {getTokenBalances(<<>>)}}
    \cup {Positions(v, l, getTokenBalances(<<>>)) :
              v \in {getVenusPositions(<<>>, 0, 0), getVenusPositions(OneBorrow, 49, 0)},
              l \in RuleLPs}
    \cup {Positions(v, l, w) :
              v \in {getVenusPositions(<<>>, 0, 0), getVenusPositions(OneBorrow, 0, 100),
                     getVenusPositions(OneBorrow, 9, 0), getVenusPositions(OneBorrow, 10, 0)},
              l \in {<<>>, <<LP("7", 50001)>>},
              w \in RuleWallets}
    \cup {Positions(v, <<LP("7", il)>>, getTokenBalances(h)) :
              v \in {getVenusPositions(<<>>, 0, 0), getVenusPositions(OneBorrow, 10, 0)},
              il \in {20000, 42000},
              h \in {<<Tok("BNB", 4000, 0, 1000000), Tok("CAKE", 3000, 0, 1000000),
                       Tok("ETH", 3000, 0, 1000000)>>,
                     <<Tok("BNB", 8000, 0, 1000000), Tok("CAKE", 2000, 0, 1000000)>>}}

\* the rules of a list: each type with two thresholds (in basis points),
\* executing or not, and one inactive rule per type
RuleChoices(id) ==
    {Rule(id, t[1], t[2], auto, TRUE) :
         t \in {<<VENUS_HEALTH_FACTOR, 150>>, <<VENUS_HEALTH_FACTOR, 105>>,
                <<IL_THRESHOLD, 500>>, <<IL_THRESHOLD, 1000>>,
                <<PORTFOLIO_DROP, 4000>>, <<PORTFOLIO_DROP, 6000>>,
                <<CONCENTRATION_LIMIT, 4000>>, <<CONCENTRATION_LIMIT, 8000>>,
                <<CUSTOM, 100>>},
         auto \in {"true", "false"}}
    \cup {Rule(id, t, ThresholdOf(t), "true", FALSE) : t \in VENUS_HEALTH_FACTOR..CUSTOM}

RECURSIVE RuleChoiceLists(_)
RuleChoiceLists(n) ==
    IF n = 0 THEN {<<>>}
    ELSE {Append(l, r) : l \in RuleChoiceLists(n - 1),
                         r \in RuleChoices(<<"r1", "r2", "r3", "r4">>[n])}

\* every list of up to MaxRules rules evaluated on every snapshot, without
\* the advisor
InitRules ==
    /\ MonitorIdle
    /\ env = Config("ok", FALSE, TRUE)
    /\ eng \in {EngineInput(p, r, NoResponse) :
                    p \in RuleSnapshots,
                    r \in UNION {RuleChoiceLists(n) : n \in 0..MaxRules}}

NextRules ==
    \/ Score
    \/ Decide

SpecRules == InitRules /\ [][NextRules]_vars

(***************************************************************************)
(* Monitor                                                                 *)
(*                                                                         *)
(* A call of _runScan is a frame of scans (its index is the identity of    *)
(* the scan and of the result object it builds).  pc is the await the call *)
(* is suspended at: "fetching" (Promise.all of the three providers),       *)
(* "advising" (the advisor request), "executing" (the external calls of    *)
(* executeDecision, one per step), then "done" or "failed".  The interval  *)
(* length has no effect here and is left out of the entries.               *)
(***************************************************************************)
HistoryCap == 100

MaxScans == 3

MaxStarts == 2

UserAddresses == {"0xAA", "0xaa", "0xBB"}

\* the frame of a call of _runScan(userAddress, rules) at its first await;
\* timer is the interval that made the call, 0 for the call of startMonitoring
NewScan(userAddress, rules, timer) ==
    [address |-> userAddress, rules |-> rules, timer |-> timer, pc |-> "fetching",
     totalScore |-> -1, level |-> "", positions |-> EngineIdle.positions,
     decision |-> NoDecision, pending |-> NoExecution, calls |-> <<>>,
     audit |-> NoAudit, executionResult |-> NullResult, events |-> <<>>]

\* the scanResult object of a frame
ScanResult(s, f) ==
    [scan |-> s, address |-> f.address, totalScore |-> f.totalScore, level |-> f.level,
     decision |-> f.decision, executionResult |-> f.executionResult]

PushHistory_keepsOldest(history, scanResult) ==
    LET h == Append(history, scanResult)
    IN IF Len(h) > HistoryCap THEN SubSeq(h, 1, HistoryCap) ELSE h

\* history.push(scanResult), then the splice that keeps the last HistoryCap
PushHistory(history, scanResult) ==
    LET h == Append(history, scanResult)
    IN IF Len(h) > HistoryCap
       THEN SubSeq(h, Len(h) - HistoryCap + 1, Len(h))
       ELSE h

LevelEvents(level) ==
    IF level = "CRITICAL" THEN <<"criticalRisk">>
    ELSE IF level = "ELEVATED" THEN <<"elevatedRisk">>
    ELSE <<>>

CompleteScan_latestOnce(s, f) ==
    LET addr == toLowerCase(f.address)
        scanResult == ScanResult(s, f)
        history == IF Has(scanHistory, addr) THEN scanHistory[addr] ELSE <<>>
    IN /\ latestScans' = IF Has(latestScans, addr) THEN latestScans
                         ELSE Put(latestScans, addr, scanResult)
       /\ scanHistory' = Put(scanHistory, addr, PushHistory(history, scanResult))
       /\ scans' = [scans EXCEPT ![s] =
                        [f EXCEPT !.pc = "done",
                                  !.positions = EngineIdle.positions,
                                  !.pending = NoExecution,
                                  !.events = f.events \o <<"scanComplete">>
                                             \o LevelEvents(f.level)]]

\* _runScan, steps 6 and 7: store the result and emit the events
CompleteScan(s, f) ==
    LET addr == toLowerCase(f.address)
        scanResult == ScanResult(s, f)
        history == IF Has(scanHistory, addr) THEN scanHistory[addr] ELSE <<>>
    IN /\ latestScans' = Put(latestScans, addr, scanResult)
       /\ scanHistory' = Put(scanHistory, addr, PushHistory(history, scanResult))
       /\ scans' = [scans EXCEPT ![s] =
                        [f EXCEPT !.pc = "done",
                                  !.positions = EngineIdle.positions,
                                  !.pending = NoExecution,
                                  !.events = f.events \o <<"scanComplete">>
                                             \o LevelEvents(f.level)]]

FailScan_silent(s, f) ==
    /\ scans' = [scans EXCEPT ![s] =
                     [f EXCEPT !.pc = "failed",
                               !.positions = EngineIdle.positions,
                               !.pending = NoExecution]]
    /\ UNCHANGED <<latestScans, scanHistory>>

FailScan_recorded(s, f) ==
    LET addr == toLowerCase(f.address)
        history == IF Has(scanHistory, addr) THEN scanHistory[addr] ELSE <<>>
    IN /\ scans' = [scans EXCEPT ![s] =
                        [f EXCEPT !.pc = "failed",
                                  !.positions = EngineIdle.positions,
                                  !.pending = NoExecution,
                                  !.events = f.events \o <<"scanError">>]]
       /\ scanHistory' = Put(scanHistory, addr, PushHistory(history, ScanResult(s, f)))
       /\ UNCHANGED latestScans

\* _runScan, the catch block
FailScan(s, f) ==
    /\ scans' = [scans EXCEPT ![s] =
                     [f EXCEPT !.pc = "failed",
                               !.positions = EngineIdle.positions,
                               !.pending = NoExecution,
                               !.events = f.events \o <<"scanError">>]]
    /\ UNCHANGED <<latestScans, scanHistory>>

FinishExecution_failsOnError(s, f) ==
    IF f.pending.result.success = "false"
    THEN FailScan(s, f)
    ELSE CompleteScan(s, [f EXCEPT !.executionResult = f.pending.result,
                                   !.audit = f.pending.audit,
                                   !.events = f.events \o <<"actionExecuted">>])

FinishExecution_quietOnFailure(s, f) ==
    CompleteScan(s, [f EXCEPT !.executionResult = f.pending.result,
                              !.audit = f.pending.audit,
                              !.events = IF f.pending.result.success = "true"
                                         THEN f.events \o <<"actionExecuted">>
                                         ELSE f.events])

\* _runScan, step 5, once executeDecision has returned
FinishExecution(s, f) ==
    CompleteScan(s, [f EXCEPT !.executionResult = f.pending.result,
                              !.audit = f.pending.audit,
                              !.events = f.events \o <<"actionExecuted">>])

\* _runScan from the decision on, up to its next await.  out: the outcomes
\* the external calls of this execution are going to have
AfterDecision(s, f, out) ==
    IF Truthy(f.decision.shouldAct) /\ f.decision.actionType # ALERT_ONLY
    THEN LET g == [f EXCEPT !.pending =
                       executeDecision(f.decision, f.totalScore, env, out)]
         IN IF g.pending.threw THEN FailScan(s, g)
            ELSE IF g.pending.calls = <<>> THEN FinishExecution(s, g)
            ELSE /\ scans' = [scans EXCEPT ![s] = [g EXCEPT !.pc = "executing"]]
                 /\ UNCHANGED <<latestScans, scanHistory>>
    ELSE CompleteScan(s, f)

\* the rules the server hands to startMonitoring: those stored for the address
RulesFor(userAddress) ==
    IF toLowerCase(userAddress) = "0xaa"
    THEN <<Rule("r1", VENUS_HEALTH_FACTOR, 150, "true", TRUE),
           Rule("r2", IL_THRESHOLD, 500, "true", TRUE)>>
    ELSE <<Rule("r1", IL_THRESHOLD, 500, "true", TRUE),
           Rule("r2", PORTFOLIO_DROP, 7000, "false", TRUE)>>

MaxExecScans == 2

\* nothing at risk: total 0
SafePositions == Positions(getVenusPositions(<<>>, 0, 0), <<>>, getTokenBalances(<<>>))

\* health factor 1.3 on a vUSDT borrow, half of the wallet in one token
WatchPositions ==
    Positions(getVenusPositions(OneBorrow, 30, 0), <<>>,
              getTokenBalances(<<Tok("BNB", 5000, 0, 1000000),
                                 Tok("CAKE", 5000, 100, 1000000)>>))

\* health factor 1.3 on a vUSDT borrow, a position with 6% loss: total 60
ElevatedPositions ==
    Positions(getVenusPositions(OneBorrow, 30, 0), <<LP("7", 60000)>>,
              getTokenBalances(<<Tok("BNB", 5000, 0, 1000000),
                                 Tok("CAKE", 5000, 100, 1000000)>>))

\* health factor 1.05 on a vBNB borrow, a position with 12% loss, 90% of the
\* wallet in an illiquid, falling token
RiskyPositions ==
    Positions(getVenusPositions(<<Market(VBNB, 200, 100)>>, 5, 0),
              <<LP("7", 120000)>>,
              getTokenBalances(<<Tok("CAKE", 9000, -1500, 5000),
                                 Tok("BNB", 1000, 0, 1000000)>>))

\* the longest reply text
MaxReply == 6

\* every reply text of up to MaxReply tokens
Replies == UNION {[1..n -> ReplyTokens] : n \in 0..MaxReply}

\* a snapshot on which the advisor is consulted, the advisor configured, and
\* every reply text as the advisor's answer
InitParse ==
    /\ MonitorIdle
    /\ env = Config("ok", TRUE, TRUE)
    /\ eng \in {EngineInput(RiskyPositions, r, [kind |-> "text", text |-> t]) :
                    r \in {<<>>, <<Rule("r1", VENUS_HEALTH_FACTOR, 150, "true", TRUE)>>},
                    t \in Replies}

SpecParse == InitParse /\ [][NextRules]_vars

AllSucceed == Outcome(TRUE, TRUE, TRUE, TRUE, TRUE)

startMonitoring_caseSensitive(userAddress, rules) ==
    /\ UNCHANGED <<eng, env, store, chain>>
    /\ IF Has(activeMonitors, userAddress)
       THEN /\ reply' = [op |-> "start", success |-> FALSE]
            /\ UNCHANGED <<activeMonitors, timers, latestScans, scanHistory, scans>>
       ELSE /\ Len(scans) < MaxScans
            /\ Len(timers) < MaxStarts
            /\ scans' = Append(scans, NewScan(userAddress, rules, 0))
            /\ timers' = Append(timers, [address |-> userAddress, rules |-> rules,
                                         live |-> TRUE])
            /\ activeMonitors' =
                   Put(activeMonitors, userAddress,
                       [intervalId |-> Len(timers) + 1, address |-> userAddress,
                        rules |-> rules])
            /\ reply' = [op |-> "start", success |-> TRUE]
            /\ UNCHANGED <<latestScans, scanHistory>>

startMonitoring(userAddress, rules) ==
    LET addr == toLowerCase(userAddress)
    IN /\ UNCHANGED <<eng, env, store, chain>>
       /\ IF Has(activeMonitors, addr)
          THEN /\ reply' = [op |-> "start", success |-> FALSE]
               /\ UNCHANGED <<activeMonitors, timers, latestScans, scanHistory, scans>>
          ELSE /\ Len(scans) < MaxScans
               /\ Len(timers) < MaxStarts
               /\ scans' = Append(scans, NewScan(userAddress, rules, 0))
               /\ timers' = Append(timers, [address |-> userAddress, rules |-> rules,
                                            live |-> TRUE])
               /\ activeMonitors' =
                      Put(activeMonitors, addr,
                          [intervalId |-> Len(timers) + 1, address |-> userAddress,
                           rules |-> rules])
               /\ reply' = [op |-> "start", success |-> TRUE]
               /\ UNCHANGED <<latestScans, scanHistory>>

stopMonitoring_keepsTimer(userAddress) ==
    LET addr == toLowerCase(userAddress)
    IN /\ UNCHANGED <<eng, env, store, chain, latestScans, scanHistory, scans, timers>>
       /\ IF ~Has(activeMonitors, addr)
          THEN /\ reply' = [op |-> "stop", success |-> FALSE]
               /\ UNCHANGED activeMonitors
          ELSE /\ activeMonitors' = Delete(activeMonitors, addr)
               /\ reply' = [op |-> "stop", success |-> TRUE]

stopMonitoring_cancelsScans(userAddress) ==
    LET addr == toLowerCase(userAddress)
    IN /\ UNCHANGED <<eng, env, store, chain, latestScans, scanHistory>>
       /\ IF ~Has(activeMonitors, addr)
          THEN /\ reply' = [op |-> "stop", success |-> FALSE]
               /\ UNCHANGED <<activeMonitors, timers, scans>>
          ELSE /\ timers' = [timers EXCEPT ![activeMonitors[addr].intervalId].live = FALSE]
               /\ activeMonitors' = Delete(activeMonitors, addr)
               /\ scans' = [s \in DOMAIN scans |->
                                IF toLowerCase(scans[s].address) = addr
                                   /\ scans[s].pc \in {"fetching", "advising", "executing"}
                                THEN [scans[s] EXCEPT !.pc = "failed"]
                                ELSE scans[s]]
               /\ reply' = [op |-> "stop", success |-> TRUE]

stopMonitoring(userAddress) ==
    LET addr == toLowerCase(userAddress)
    IN /\ UNCHANGED <<eng, env, store, chain, latestScans, scanHistory, scans>>
       /\ IF ~Has(activeMonitors, addr)
          THEN /\ reply' = [op |-> "stop", success |-> FALSE]
               /\ UNCHANGED <<activeMonitors, timers>>
          ELSE /\ timers' = [timers EXCEPT ![activeMonitors[addr].intervalId].live = FALSE]
               /\ activeMonitors' = Delete(activeMonitors, addr)
               /\ reply' = [op |-> "stop", success |-> TRUE]

Tick_serialized(t) ==
    /\ timers[t].live
    /\ Len(scans) < MaxScans
    /\ \A s \in DOMAIN scans : scans[s].pc \in {"done", "failed"}
    /\ scans' = Append(scans, NewScan(timers[t].address, timers[t].rules, t))
    /\ UNCHANGED <<eng, env, store, chain, activeMonitors, timers, latestScans, scanHistory, reply>>

\* the callback of setInterval: a live interval fires
Tick(t) ==
    /\ timers[t].live
    /\ Len(scans) < MaxScans
    /\ scans' = Append(scans, NewScan(timers[t].address, timers[t].rules, t))
    /\ UNCHANGED <<eng, env, store, chain, activeMonitors, timers, latestScans, scanHistory, reply>>

\* the providers resolve: score, decide (unless the advisor is asked), go on
FetchDone(s, positions, out) ==
    /\ scans[s].pc = "fetching"
    /\ LET riskScore == calculateRiskScore(positions.venus, positions.lp, positions.wallet)
           f == [scans[s] EXCEPT !.positions = positions,
                                 !.totalScore = riskScore.totalScore,
                                 !.level = riskScore.level]
       IN IF ConsultsAdvisor(riskScore, env.apiKey)
          THEN /\ scans' = [scans EXCEPT ![s] = [f EXCEPT !.pc = "advising"]]
               /\ UNCHANGED <<latestScans, scanHistory>>
          ELSE AfterDecision(s, [f EXCEPT !.decision =
                                     evaluateAndDecide(riskScore, positions, f.rules,
                                                       env.apiKey, NoResponse)],
                             out)
    /\ UNCHANGED <<eng, env, store, chain, activeMonitors, timers, reply>>

\* the await of the providers rejects
FetchFail(s) ==
    /\ scans[s].pc = "fetching"
    /\ FailScan(s, scans[s])
    /\ UNCHANGED <<eng, env, store, chain, activeMonitors, timers, reply>>

\* the advisor request returns or fails
AdvisorDone(s, response, out) ==
    /\ scans[s].pc = "advising"
    /\ LET f == scans[s]
           riskScore == calculateRiskScore(f.positions.venus, f.positions.lp,
                                           f.positions.wallet)
       IN AfterDecision(s, [f EXCEPT !.decision =
                                evaluateAndDecide(riskScore, f.positions, f.rules,
                                                  env.apiKey, response)],
                           out)
    /\ UNCHANGED <<eng, env, store, chain, activeMonitors, timers, reply>>

\* the next external call of executeDecision returns or fails
CallDone(s) ==
    /\ scans[s].pc = "executing"
    /\ LET f == scans[s]
           g == [f EXCEPT !.calls = Append(f.calls, f.pending.calls[Len(f.calls) + 1])]
       IN IF Len(g.calls) < Len(g.pending.calls)
          THEN /\ scans' = [scans EXCEPT ![s] = g]
               /\ UNCHANGED <<latestScans, scanHistory>>
          ELSE FinishExecution(s, g)
    /\ chain' = IF scans[s].pending.calls[Len(scans[s].calls) + 1] = "logAction"
                THEN [chain EXCEPT !.log = Mined(@, scans[s].pending)]
                ELSE chain
    /\ UNCHANGED <<eng, env, store, activeMonitors, timers, reply>>

\* getActionHistory of core.js, the read of the contract succeeding.  Without
\* the log contract: the executed scans among the last 20 of the monitor's
\* history; with it: getUserActions of the address (the 20 bytes that
\* either spelling of the address encodes), risk scores in basis points
getActionHistory(userAddress) ==
    IF ~env.shieldLog
    THEN LET all == IF Has(scanHistory, toLowerCase(userAddress))
                    THEN scanHistory[toLowerCase(userAddress)] ELSE <<>>
             last == SubSeq(all, Max2(1, Len(all) - 19), Len(all))
             executed == SelectSeq(last, LAMBDA r : /\ r.executionResult.present
                                                    /\ r.executionResult.executed)
         IN [i \in 1..Len(executed) |->
                [actionType |-> executed[i].decision.actionName,
                 result |-> executed[i].executionResult]]
    ELSE LET actions == getUserActions(chain.log, toLowerCase(userAddress))
         IN [i \in 1..Len(actions) |->
                [user |-> actions[i].user,
                 actionType |-> IF actions[i].actionType + 1 \in DOMAIN ActionNames
                                THEN ActionNames[actions[i].actionType + 1]
                                ELSE "UNKNOWN",
                 riskScoreBefore |-> actions[i].riskScoreBefore,
                 riskScoreAfter |-> actions[i].riskScoreAfter,
                 amountProtected |-> actions[i].amountProtected,
                 reasoningHash |-> actions[i].reasoningHash,
                 tokenInvolved |-> actions[i].tokenInvolved,
                 timestamp |-> actions[i].timestamp]]

\* the monitor with two watched addresses, every external call succeeding
Next ==
    \/ \E u \in UserAddresses : startMonitoring(u, RulesFor(u))
    \/ \E u \in UserAddresses : stopMonitoring(u)
    \/ \E t \in DOMAIN timers : Tick(t)
    \/ \E s \in DOMAIN scans, p \in {SafePositions, RiskyPositions} :
           FetchDone(s, p, AllSucceed)
    \/ \E s \in DOMAIN scans : FetchFail(s)
    \/ \E s \in DOMAIN scans : CallDone(s)

Init ==
    /\ MonitorIdle
    /\ eng = EngineIdle
    /\ env \in {Config("ok", FALSE, TRUE), Config("bad", FALSE, TRUE)}

Spec == Init /\ [][Next]_vars

HistoryPrefill == 99

\* the record of an earlier scan of 0xAA that found nothing at risk
EarlierRecord(n) ==
    LET riskScore == calculateRiskScore(SafePositions.venus, SafePositions.lp,
                                        SafePositions.wallet)
    IN ScanResult(n - HistoryPrefill,
                  [NewScan("0xAA", RulesFor("0xAA"), 0) EXCEPT
                       !.totalScore = riskScore.totalScore,
                       !.level = riskScore.level,
                       !.decision = evaluateAndDecide(riskScore, SafePositions,
                                                      RulesFor("0xAA"), FALSE,
                                                      NoResponse)])

\* the monitor after HistoryPrefill completed scans of 0xAA and a stop
InitHistory ==
    /\ chain = Deployed
    /\ store = EmptyStore
    /\ activeMonitors = <<>>
    /\ timers = <<>>
    /\ scans = <<>>
    /\ reply = [op |-> "stop", success |-> TRUE]
    /\ scanHistory = [a \in {"0xaa"} |-> [n \in 1..HistoryPrefill |-> EarlierRecord(n)]]
    /\ latestScans = [a \in {"0xaa"} |-> EarlierRecord(HistoryPrefill)]
    /\ eng = EngineIdle
    /\ env = Config("ok", FALSE, TRUE)

\* the monitor on the one address, written in either case
NextHistory ==
    \/ \E u \in {"0xAA", "0xaa"} : startMonitoring(u, RulesFor(u))
    \/ \E u \in {"0xAA", "0xaa"} : stopMonitoring(u)
    \/ \E t \in DOMAIN timers : Tick(t)
    \/ \E s \in DOMAIN scans, p \in {SafePositions, RiskyPositions} :
           FetchDone(s, p, AllSucceed)
    \/ \E s \in DOMAIN scans : FetchFail(s)
    \/ \E s \in DOMAIN scans : CallDone(s)

SpecHistory == InitHistory /\ [][NextHistory]_vars

\* advisor responses of the monitor's scans: the request fails, a repayment
\* with and without shouldAct, an unknown action with shouldAct
ExecResponses ==
    {[kind |-> "error", object |-> NoObject],
     AdvisorObject("VENUS_REPAY", "", "true",
                   [tokenAddress |-> "vUSDT", amount |-> 2500,
                    positionId |-> "", liquidity |-> ""]),
     AdvisorObject("VENUS_REPAY", "", "false",
                   [tokenAddress |-> "vUSDT", amount |-> 2500,
                    positionId |-> "", liquidity |-> ""]),
     AdvisorObject("SELL_ALL", "HIGH", "true", NoParams)}

\* the monitor on one address, with the advisor and with failing calls
NextExec ==
    \/ Len(scans) < MaxExecScans /\ startMonitoring("0xAA", RulesFor("0xAA"))
    \/ stopMonitoring("0xAA")
    \/ \E t \in DOMAIN timers : Len(scans) < MaxExecScans /\ Tick(t)
    \/ \E s \in DOMAIN scans,
          p \in {SafePositions, WatchPositions, ElevatedPositions, RiskyPositions},
          out \in Outcomes :
           FetchDone(s, p, out)
    \/ \E s \in DOMAIN scans : FetchFail(s)
    \/ \E s \in DOMAIN scans, a \in ExecResponses, out \in Outcomes :
           AdvisorDone(s, a, out)
    \/ \E s \in DOMAIN scans : CallDone(s)

ExecConfigs ==
    {Config("ok", TRUE, TRUE), Config("ok", FALSE, TRUE), Config("ok", FALSE, FALSE),
     Config("none", FALSE, TRUE), Config("bad", FALSE, TRUE)}

\* a behaviour is either calls of the pipeline from outside of the monitor or
\* a run of the monitor
InitProtect ==
    \/ InitDecide
    \/ /\ MonitorIdle
       /\ eng = EngineIdle
       /\ env \in ExecConfigs

NextProtect ==
    \/ NextEngine
    \/ eng.stage = "idle" /\ NextExec

SpecProtect == InitProtect /\ [][NextProtect]_vars

(***************************************************************************)
(* ShieldLog on its own: any account sends logAction.                      *)
(***************************************************************************)
MaxLogged == 3

Senders == {AgentAddress, "0xaa", "0xbb"}

Amounts == {0, 400000, 600000, UintMax}

\* a logAction transaction of any account is mined or reverts
LogAction(sender, actionType, amountProtected, timestamp) ==
    /\ Len(chain.log.actions) < MaxLogged
    /\ chain' = [chain EXCEPT !.log =
                     logAction(@, sender, actionType, 6000, 4200, amountProtected,
                               "keccak256(reasoning)", ZeroAddress, timestamp)]
    /\ UNCHANGED <<eng, env, store, activeMonitors, timers, latestScans, scanHistory,
                   scans, reply>>

InitLog ==
    /\ MonitorIdle
    /\ eng = EngineIdle
    /\ env = Config("ok", FALSE, TRUE)

NextLog ==
    \E sender \in Senders, actionType \in {VENUS_REPAY, LP_WITHDRAW},
       amountProtected \in Amounts, timestamp \in {1, 2} :
        LogAction(sender, actionType, amountProtected, timestamp)

SpecLog == InitLog /\ [][NextLog]_vars

(***************************************************************************)
(* ShieldVault on its own: any account sends any transaction.  The amounts *)
(* are such that few balances are reachable.                               *)
(***************************************************************************)
\* config.pancakeswapV3Router
PancakeV3Router == "0x13f4"

Accounts == {"0x0e", AgentAddress, "0xaa", "0xbb"}

Tokens == {"USDT", "BUSD"}

Routers == {ZeroAddress, PancakeV3Router, "0xe1"}

VaultAmounts == {0, 500000}

UnchangedBackend ==
    UNCHANGED <<eng, env, store, activeMonitors, timers, latestScans, scanHistory,
                scans, reply>>

DepositToken(sender, token, amount, pulled) ==
    /\ chain' = [chain EXCEPT !.vault = depositToken(@, sender, token, amount, pulled)]
    /\ UnchangedBackend

WithdrawToken(sender, token, amount, sent) ==
    /\ chain' = [chain EXCEPT !.vault = withdrawToken(@, sender, token, amount, sent)]
    /\ UnchangedBackend

ExecuteProtection(sender, user, tokenIn, tokenOut, amountIn, router, amountOut) ==
    /\ chain' = [chain EXCEPT !.vault =
                     executeProtection(@, sender, user, tokenIn, tokenOut, amountIn,
                                       router, amountOut)]
    /\ UnchangedBackend

SetAgent(sender, agent) ==
    /\ chain' = [chain EXCEPT !.vault = setAgent(@, sender, agent)]
    /\ UnchangedBackend

InitVault ==
    /\ MonitorIdle
    /\ eng = EngineIdle
    /\ env = Config("ok", FALSE, TRUE)

NextVault ==
    \/ \E sender \in {"0xaa", "0xbb"}, token \in Tokens \cup {ZeroAddress},
          amount \in VaultAmounts, pulled \in BOOLEAN :
           DepositToken(sender, token, amount, pulled)
    \/ \E sender \in {"0xaa", "0xbb"}, token \in Tokens \cup {ZeroAddress},
          amount \in VaultAmounts, sent \in BOOLEAN :
           WithdrawToken(sender, token, amount, sent)
    \/ \E sender \in {AgentAddress, "0xbb"}, user \in {"0xaa", "0xbb", ZeroAddress},
          tokenIn \in Tokens, tokenOut \in Tokens, amountIn \in VaultAmounts,
          router \in Routers, amountOut \in {-1, 0, 500000} :
           ExecuteProtection(sender, user, tokenIn, tokenOut, amountIn, router,
                             amountOut)
    \/ \E sender \in {"0x0e", "0xbb"}, agent \in {AgentAddress, "0xbb", ZeroAddress} :
           SetAgent(sender, agent)

SpecVault == InitVault /\ [][NextVault]_vars

(***************************************************************************)

(* The server's rule routes with SHIELD_RULES_ADDRESS not set: the rules   *)
(* live in global._shieldRules for the session.  The id of a rule is       *)
(* "local_" and the clock at its creation; every request here is served in *)
(* a millisecond of its own, store.now being the last one used.            *)
(***************************************************************************)
MaxCreated == 2

LocalIds == <<"local_1", "local_2", "local_3", "local_4">>

\* global._shieldRules[address.toLowerCase()] || []
StoredFor(address) ==
    IF Has(store.rules, toLowerCase(address)) THEN store.rules[toLowerCase(address)]
    ELSE <<>>

\* POST /api/rules: the rule is appended to the list of its address
CreateRule(address, ruleType, threshold, autoExecute) ==
    LET rule == [id |-> LocalIds[store.now + 1], user |-> address,
                 ruleType |-> ruleType, threshold |-> threshold,
                 autoExecute |-> OrFalse(autoExecute), active |-> TRUE,
                 lastTriggeredAt |-> 0, triggerCount |-> 0]
    IN /\ store.now < MaxCreated
       /\ store' = [rules |-> Put(store.rules, toLowerCase(address),
                                  Append(StoredFor(address), rule)),
                    now |-> store.now + 1]
       /\ UNCHANGED <<eng, env, chain, activeMonitors, timers, latestScans,
                      scanHistory, scans, reply>>

\* DELETE /api/rules/:ruleId: the first rule of that id is spliced out of the
\* list that holds it; 404 and no change when there is none
DeleteRule(ruleId) ==
    /\ IF \E addr \in DOMAIN store.rules :
              \E i \in DOMAIN store.rules[addr] : store.rules[addr][i].id = ruleId
       THEN LET addr == CHOOSE a \in DOMAIN store.rules :
                            \E i \in DOMAIN store.rules[a] : store.rules[a][i].id = ruleId
                list == store.rules[addr]
                idx == FirstTrue([i \in DOMAIN list |-> list[i].id = ruleId])
            IN store' = [store EXCEPT !.rules[addr] =
                             SubSeq(list, 1, idx - 1) \o SubSeq(list, idx + 1, Len(list))]
       ELSE UNCHANGED store
    /\ UNCHANGED <<eng, env, chain, activeMonitors, timers, latestScans, scanHistory,
                   scans, reply>>

\* POST /api/monitor/start: the monitor gets the active rules stored for the
\* address at this moment
MonitorStart(address) ==
    startMonitoring(address, SelectSeq(StoredFor(address), LAMBDA r : r.active))

InitServer ==
    /\ MonitorIdle
    /\ eng = EngineIdle
    /\ env = Config("ok", FALSE, TRUE)

NextServer ==
    \/ \E autoExecute \in {"true", "absent"} :
           \/ CreateRule("0xAA", VENUS_HEALTH_FACTOR, 150, autoExecute)
           \/ CreateRule("0xAA", IL_THRESHOLD, 500, autoExecute)
    \/ \E n \in 1..MaxCreated : DeleteRule(LocalIds[n])
    \/ Len(scans) < MaxExecScans /\ MonitorStart("0xAA")
    \/ stopMonitoring("0xAA")
    \/ \E t \in DOMAIN timers : Len(scans) < MaxExecScans /\ Tick(t)
    \/ \E s \in DOMAIN scans, p \in {SafePositions, RiskyPositions} :
           FetchDone(s, p, AllSucceed)
    \/ \E s \in DOMAIN scans : FetchFail(s)
    \/ \E s \in DOMAIN scans : CallDone(s)

SpecServer == InitServer /\ [][NextServer]_vars

(***************************************************************************)

(* Properties                                                              *)
(***************************************************************************)
Elements(s) == {s[i] : i \in DOMAIN s}

\* C1: a decision whose shouldAct is not set reaches no side effect.  In every
\* scan of the monitor with such a decision no protective call and no log
\* call is made, no record is handed to the log, no execution result with
\* executed = true is stored and actionExecuted is not emitted; a direct call
\* of executeDecision with such a decision makes no call, hands no record to
\* the log, and returns executed = false without throwing.
C1_NoSideEffectWithoutShouldAct ==
    /\ \A s \in DOMAIN scans :
           ~Truthy(scans[s].decision.shouldAct) =>
               /\ scans[s].calls = <<>>
               /\ scans[s].pending.calls = <<>>
               /\ scans[s].audit = NoAudit
               /\ ~scans[s].executionResult.executed
               /\ "actionExecuted" \notin Elements(scans[s].events)
    /\ (eng.stage = "executed" /\ ~Truthy(eng.decision.shouldAct)) =>
           /\ eng.execution.calls = <<>>
           /\ eng.execution.audit = NoAudit
           /\ ~eng.execution.threw
           /\ eng.execution.result.present
           /\ ~eng.execution.result.executed

\* a completed scan whose decision was a full repayment without shouldAct,
\* with a signer configured
C1_Witness ==
    \E s \in DOMAIN scans :
        /\ scans[s].pc = "done"
        /\ scans[s].decision.shouldAct = "false"
        /\ scans[s].decision.actionType = VENUS_REPAY
        /\ scans[s].decision.params.tokenAddress # ""
        /\ env.signer = "ok"

\* C2: the total of a risk score is the sum of its five category scores, each
\* category score is between 0 and its maximum (30, 25, 20, 15, 10), and the
\* total is between 0 and 100.
C2_TotalIsSumOfBoundedCategories ==
    eng.stage # "input" =>
        LET b == eng.riskScore.breakdown
        IN /\ eng.riskScore.totalScore =
                  b.liquidationProximity.score + b.impermanentLoss.score
                  + b.concentrationRisk.score + b.volatilityExposure.score
                  + b.liquidityRisk.score
           /\ b.liquidationProximity.score \in 0..30
           /\ b.impermanentLoss.score \in 0..25
           /\ b.concentrationRisk.score \in 0..20
           /\ b.volatilityExposure.score \in 0..15
           /\ b.liquidityRisk.score \in 0..10
           /\ b.liquidationProximity.maxScore = 30
           /\ b.impermanentLoss.maxScore = 25
           /\ b.concentrationRisk.maxScore = 20
           /\ b.volatilityExposure.maxScore = 15
           /\ b.liquidityRisk.maxScore = 10
           /\ eng.riskScore.totalScore \in 0..100

\* a snapshot at the maximum of every category is scored 100
C2_Witness ==
    /\ eng.stage = "scored"
    /\ eng.riskScore.totalScore = 100
    /\ eng.riskScore.breakdown.liquidityRisk.score = 10

\* the condition of a rule on the values of the snapshot and of its score
ConditionMet(rule, riskScore, positions) ==
    CASE rule.ruleType = VENUS_HEALTH_FACTOR ->
             positions.venus.healthFactor * 100 < rule.threshold * HFUnit
      [] rule.ruleType = IL_THRESHOLD ->
             \E i \in 1..Len(positions.lp) :
                 positions.lp[i].impermanentLoss * 100 > rule.threshold * ILUnit
      [] rule.ruleType = PORTFOLIO_DROP ->
             riskScore.totalScore * 100 >= rule.threshold
      [] rule.ruleType = CONCENTRATION_LIMIT ->
             positions.wallet.maxConcentration * 100 > rule.threshold * PctUnit
      [] OTHER -> FALSE

ActionOfRule(ruleType) ==
    CASE ruleType = VENUS_HEALTH_FACTOR -> VENUS_REPAY
      [] ruleType = IL_THRESHOLD -> LP_WITHDRAW
      [] ruleType = PORTFOLIO_DROP -> EMERGENCY_EXIT
      [] ruleType = CONCENTRATION_LIMIT -> REBALANCE
      [] OTHER -> ALERT_ONLY

\* C3: rule evaluation is first match wins.  When the advisor did not decide,
\* the decision is that of the active rule of lowest index whose condition
\* holds on the snapshot (its id, its action), whatever the rules after it
\* are; inactive rules are skipped; with no such rule the decision is a
\* default one.
C3_FirstMatchWins ==
    (eng.stage \in {"decided", "executed"} /\ eng.decision.source # "AI") =>
        LET rules == eng.rules
            Holds(i) == rules[i].active
                        /\ ConditionMet(rules[i], eng.riskScore, eng.positions)
        IN IF \E i \in 1..Len(rules) : Holds(i)
           THEN LET first == CHOOSE i \in 1..Len(rules) :
                                 Holds(i) /\ \A j \in 1..(i - 1) : ~Holds(j)
                IN /\ eng.decision.source = "RULE"
                   /\ eng.decision.ruleId = rules[first].id
                   /\ eng.decision.actionType = ActionOfRule(rules[first].ruleType)
           ELSE eng.decision.source = "DEFAULT"

\* C8: shouldAct is set only with an authorization.  A decision of a rule has
\* the autoExecute of the rule it names, a decision of the advisor has
\* shouldAct set only if the advisor's object has it set, a default decision
\* has shouldAct false.
C8_ShouldActNeedsAuthorization ==
    eng.stage \in {"decided", "executed"} =>
        LET d == eng.decision
        IN /\ d.source \in {"RULE", "AI", "DEFAULT"}
           /\ d.source = "RULE" =>
                  \E i \in 1..Len(eng.rules) :
                      /\ eng.rules[i].id = d.ruleId
                      /\ eng.rules[i].active
                      /\ d.shouldAct = eng.rules[i].autoExecute
           /\ d.source = "AI" =>
                  /\ eng.response.kind = "json"
                  /\ Truthy(d.shouldAct) => d.shouldAct = eng.response.object.shouldAct
           /\ d.source = "DEFAULT" => d.shouldAct = "false"

\* the second rule decided, with autoExecute, after an active first rule
\* without autoExecute whose condition does not hold
C8_Witness ==
    /\ eng.stage = "decided"
    /\ eng.decision.source = "RULE"
    /\ eng.decision.ruleId = "r2"
    /\ eng.decision.shouldAct = "true"
    /\ eng.rules[1].active
    /\ eng.rules[1].autoExecute = "false"

\* C9: the liquidation score is a step function of the health factor of the
\* snapshot: 999 gives 0, above 2.0 gives 0, above 1.5 up to 2.0 gives 10,
\* above 1.2 up to 1.5 gives 20, and every other one, down to and including
\* 0, gives 30.
C9_LiquidationStepFunction ==
    eng.stage # "input" =>
        LET hf == eng.positions.venus.healthFactor
        IN eng.riskScore.breakdown.liquidationProximity.score =
               IF hf = NoBorrowHF THEN 0
               ELSE IF hf > 2 * HFUnit THEN 0
               ELSE IF 2 * hf > 3 * HFUnit THEN 10
               ELSE IF 10 * hf > 12 * HFUnit THEN 20
               ELSE 30

\* C10: the impermanent loss score is a function of the largest loss m among
\* the positions of the snapshot only: m < 1 gives 0, 1 <= m < 3 gives 10,
\* 3 <= m < 5 gives 18, m >= 5 gives 25; without positions it is 0.
C10_ILScoreOfMaximum ==
    eng.stage # "input" =>
        LET lp == eng.positions.lp
            losses == {lp[i].impermanentLoss : i \in 1..Len(lp)}
            m == CHOOSE x \in losses : \A y \in losses : x >= y
        IN eng.riskScore.breakdown.impermanentLoss.score =
               IF lp = <<>> THEN 0
               ELSE IF m < 1 * ILUnit THEN 0
               ELSE IF m < 3 * ILUnit THEN 10
               ELSE IF m < 5 * ILUnit THEN 18
               ELSE 25

\* two positions, the second one with the larger loss, 4.2%: scored 18
C10_Witness ==
    /\ eng.stage = "scored"
    /\ Len(eng.positions.lp) = 2
    /\ eng.positions.lp[1].impermanentLoss < 1 * ILUnit
    /\ eng.positions.lp[2].impermanentLoss = 42000
    /\ eng.riskScore.breakdown.impermanentLoss.score = 18

\* the live intervals of an address
LiveTimers(addr) ==
    {t \in DOMAIN timers : timers[t].live /\ toLowerCase(timers[t].address) = addr}

\* C4: a start on an address that is being monitored, in whatever case the
\* address is written, is answered with success = false and leaves the
\* intervals, the scans and the entries as they are; an address never has
\* more than one live interval; a start on an address that is not monitored
\* (never started, or stopped) succeeds with a new interval and a scan.
C4_StartOncePerAddress ==
    /\ [](\A u \in UserAddresses : Cardinality(LiveTimers(toLowerCase(u))) <= 1)
    /\ [][\A u \in UserAddresses :
              startMonitoring(u, RulesFor(u)) =>
                  IF Has(activeMonitors, toLowerCase(u))
                  THEN /\ reply' = [op |-> "start", success |-> FALSE]
                       /\ timers' = timers
                       /\ scans' = scans
                       /\ activeMonitors' = activeMonitors
                  ELSE /\ reply' = [op |-> "start", success |-> TRUE]
                       /\ Len(timers') = Len(timers) + 1
                       /\ LiveTimers(toLowerCase(u))' = {Len(timers')}
                       /\ Len(scans') = Len(scans) + 1]_vars

\* 0xAA was started, stopped, started again as 0xaa, and a further start was
\* rejected
C4_Witness ==
    /\ reply = [op |-> "start", success |-> FALSE]
    /\ Len(timers) = 2
    /\ timers[1].address = "0xAA" /\ ~timers[1].live
    /\ timers[2].address = "0xaa" /\ timers[2].live
    /\ Has(activeMonitors, "0xaa")

\* C5: a scan that throws, while fetching or while executing, emits scanError
\* and leaves the entry of its address and every interval as they are; a live
\* interval can always fire, and its firing starts a new scan of its address,
\* however many scans have failed before.
C5_FailedScanKeepsMonitoring ==
    /\ [](\A t \in DOMAIN timers :
              (timers[t].live /\ Len(scans) < MaxScans) => ENABLED Tick(t))
    /\ [][/\ \A s \in DOMAIN scans :
                 (scans[s].pc # "failed" /\ scans'[s].pc = "failed") =>
                     /\ scans'[s].events = Append(scans[s].events, "scanError")
                     /\ activeMonitors' = activeMonitors
                     /\ timers' = timers
          /\ \A t \in DOMAIN timers :
                 Tick(t) =>
                     /\ Len(scans') = Len(scans) + 1
                     /\ scans'[Len(scans')].pc = "fetching"
                     /\ scans'[Len(scans')].address = timers[t].address
                     /\ scans'[Len(scans')].timer = t]_vars

\* the first scan failed while fetching, the second while executing, and the
\* interval, still live, has started a third
C5_Witness ==
    /\ Len(scans) = 3
    /\ scans[1].pc = "failed" /\ scans[1].decision = NoDecision
    /\ scans[2].pc = "failed" /\ scans[2].decision.source = "RULE"
    /\ scans[2].timer = 1 /\ scans[3].timer = 1
    /\ timers[1].live
    /\ Has(activeMonitors, toLowerCase(timers[1].address))

\* the scans that complete in a step
Completing(addr) ==
    {s \in DOMAIN scans : /\ scans[s].pc # "done"
                          /\ scans'[s].pc = "done"
                          /\ toLowerCase(scans[s].address) = addr}

\* C6: the history of an address never has more than 100 records; it changes
\* only when a scan of the address completes; a completing scan adds its
\* record at the end of the history and, when the history had 100 records
\* already, removes exactly its first record.
C6_HistoryKeepsLast100 ==
    /\ [](\A a \in DOMAIN scanHistory : Len(scanHistory[a]) <= 100)
    /\ [][\A a \in {toLowerCase(u) : u \in UserAddresses} :
              LET old == IF Has(scanHistory, a) THEN scanHistory[a] ELSE <<>>
                  new == IF Has(scanHistory', a) THEN scanHistory'[a] ELSE <<>>
              IN /\ Completing(a) = {} => new = old
                 /\ \A s \in Completing(a) :
                        /\ new # <<>>
                        /\ new[Len(new)].scan = s
                        /\ new[Len(new)].address = scans[s].address
                        /\ new[Len(new)].decision = scans'[s].decision
                        /\ new[Len(new)].executionResult = scans'[s].executionResult
                        /\ new = IF Len(old) < 100
                                 THEN Append(old, new[Len(new)])
                                 ELSE Append(Tail(old), new[Len(new)])]_vars

\* a full history whose oldest record has been removed
C6_Witness ==
    /\ Has(scanHistory, "0xaa")
    /\ Len(scanHistory["0xaa"]) = 100
    /\ scanHistory["0xaa"][1].scan = 3 - HistoryPrefill
    /\ scanHistory["0xaa"][100].scan >= 1

\* C7: a stop on a monitored address clears its interval and removes its
\* entry, leaves every history and every latest scan as they are, and leaves
\* the entries and the intervals of the other addresses as they are.
C7_StopFrame ==
    [][\A u \in UserAddresses :
           (Has(activeMonitors, toLowerCase(u)) /\ stopMonitoring(u)) =>
               LET addr == toLowerCase(u)
                   id == activeMonitors[addr].intervalId
               IN /\ reply' = [op |-> "stop", success |-> TRUE]
                  /\ ~Has(activeMonitors', addr)
                  /\ ~timers'[id].live
                  /\ LiveTimers(addr)' = {}
                  /\ latestScans' = latestScans
                  /\ scanHistory' = scanHistory
                  /\ \A b \in DOMAIN activeMonitors \ {addr} :
                         Has(activeMonitors', b) /\ activeMonitors'[b] = activeMonitors[b]
                  /\ DOMAIN timers' = DOMAIN timers
                  /\ \A t \in DOMAIN timers \ {id} : timers'[t] = timers[t]]_vars

\* 0xaa was stopped with a history, while 0xbb is monitored
C7_Witness ==
    /\ reply = [op |-> "stop", success |-> TRUE]
    /\ Has(activeMonitors, "0xbb")
    /\ ~Has(activeMonitors, "0xaa")
    /\ Has(scanHistory, "0xaa")
    /\ Has(latestScans, "0xaa")
    /\ \E t \in DOMAIN timers : toLowerCase(timers[t].address) = "0xaa" /\ ~timers[t].live
    /\ \E t \in DOMAIN timers : toLowerCase(timers[t].address) = "0xbb" /\ timers[t].live

\* C11: the concentration score is a step function of the maxConcentration c
\* of the wallet: c < 30 gives 0, 30 <= c < 50 gives 10, 50 <= c < 70 gives
\* 15, c >= 70 gives 20; a wallet without holdings scores 0.
C11_ConcentrationStepFunction ==
    eng.stage # "input" =>
        LET c == eng.positions.wallet.maxConcentration
            score == eng.riskScore.breakdown.concentrationRisk.score
        IN /\ score = IF c < 30 * PctUnit THEN 0
                      ELSE IF c < 50 * PctUnit THEN 10
                      ELSE IF c < 70 * PctUnit THEN 15
                      ELSE 20
           /\ eng.positions.wallet.tokens = <<>> => score = 0

\* a wallet whose largest holding is exactly 50% is scored 15
C11_Witness ==
    /\ eng.stage = "scored"
    /\ eng.positions.wallet.maxConcentration = 50 * PctUnit
    /\ eng.riskScore.breakdown.concentrationRisk.score = 15

\* C12: the level is a step function of the total: up to 15 SAFE, 16 to 35
\* MODERATE, 36 to 60 ELEVATED, above 60 CRITICAL.
C12_LevelBreakpoints ==
    eng.stage # "input" =>
        LET total == eng.riskScore.totalScore
        IN eng.riskScore.level =
               IF total <= 15 THEN "SAFE"
               ELSE IF total \in 16..35 THEN "MODERATE"
               ELSE IF total \in 36..60 THEN "ELEVATED"
               ELSE "CRITICAL"

\* a total of exactly 60 has the level ELEVATED
C12_Witness ==
    /\ eng.stage = "scored"
    /\ eng.riskScore.totalScore = 60
    /\ eng.riskScore.level = "ELEVATED"

\* the low liquidity exposure of a holding as the rule is stated
ExposureOf(t) ==
    (IF t.percentage > 10 * PctUnit /\ t.liquidity < 100000 THEN t.percentage ELSE 0)
    + (IF t.percentage > 5 * PctUnit /\ t.liquidity < 10000 THEN 2 * t.percentage ELSE 0)

\* C13: the liquidity score is that of the exposure e summed over the
\* holdings, a holding with more than 10% and a depth below 100k adding its
\* percentage and one with more than 5% and a depth below 10k adding twice
\* its percentage, a depth of 0 included: e < 5 gives 0, e < 15 gives 3,
\* e < 30 gives 6, otherwise 10.
C13_LiquidityExposureBuckets ==
    eng.stage # "input" =>
        LET tokens == eng.positions.wallet.tokens
            e == Sum([i \in 1..Len(tokens) |-> ExposureOf(tokens[i])])
        IN eng.riskScore.breakdown.liquidityRisk.score =
               IF e < 5 * PctUnit THEN 0
               ELSE IF e < 15 * PctUnit THEN 3
               ELSE IF e < 30 * PctUnit THEN 6
               ELSE 10

\* the decision of a call of evaluateAndDecide whose advisor, if consulted at
\* all, gave nothing usable
AdvisorUnused(decision, riskScore, positions, rules) ==
    decision = ruleBasedEvaluate(riskScore, positions, rules)

\* C14, a call from outside of the monitor: an advisor decision is returned
\* only when the total is at least 25 and the advisor is configured; when the
\* advisor is not consulted, or its call fails or its reply has no parseable
\* object, the decision is the one of the rules and defaults.
C14_DirectCall ==
    eng.stage \in {"decided", "executed"} =>
        /\ eng.decision.source = "AI" =>
               /\ eng.riskScore.totalScore >= 25
               /\ env.apiKey
               /\ eng.response.kind = "json"
        /\ (~(eng.riskScore.totalScore >= 25 /\ env.apiKey)
               \/ eng.response.kind \in {"error", "prose", "malformed"}) =>
               AdvisorUnused(eng.decision, eng.riskScore, eng.positions, eng.rules)

\* C14, a scan s of the monitor over one step: the advisor request is made
\* only by a scan that has just fetched, with a total of at least 25 and the
\* advisor configured, and a scan that has left the request never makes
\* another; a scan leaving the request without an advisor decision has the
\* decision of the rules and defaults, and fails only because of the
\* execution of that decision.
C14_ScanStep(s) ==
    LET f == scans[s]
        g == scans'[s]
        riskScore == calculateRiskScore(f.positions.venus, f.positions.lp,
                                        f.positions.wallet)
    IN /\ g.pc = "fetching" => f.pc = "fetching"
       /\ (g.pc = "advising" /\ f.pc # "advising") =>
              /\ f.pc = "fetching"
              /\ g.totalScore >= 25
              /\ env.apiKey
       /\ (f.pc = "advising" /\ g.pc # "advising") =>
              /\ g.decision.source # "AI" =>
                     AdvisorUnused(g.decision, riskScore, f.positions, f.rules)
              /\ g.pc = "failed" =>
                     /\ Truthy(g.decision.shouldAct)
                     /\ g.decision.actionType # ALERT_ONLY
                     /\ env.signer = "bad"
       /\ (f.pc = "fetching" /\ g.pc \notin {"fetching", "advising", "failed"}) =>
              g.decision.source # "AI"

\* C14: evaluateAndDecide consults the advisor at most once per decision, and
\* only when the total is at least 25 and the advisor is configured; when the
\* advisor call fails or its reply holds no parseable object there is no
\* retry and no error, and the decision returned is exactly the one of the
\* deterministic rules and defaults.
C14_AdvisorOnceWithFallback ==
    [][/\ C14_DirectCall'
       /\ \A s \in DOMAIN scans : s \in DOMAIN scans' /\ C14_ScanStep(s)]_vars

\* the advisor call of a direct evaluation failed at a total of at least 25,
\* and the decision is the one of a rule
C14_Witness ==
    /\ eng.stage = "decided"
    /\ env.apiKey
    /\ eng.riskScore.totalScore >= 25
    /\ eng.response.kind = "error"
    /\ eng.decision.source = "RULE"

\* the loop of ruleBasedEvaluate arrives at the i-th rule of the list: the
\* rule is active and no active rule before it has returned a decision
Reached(i) ==
    /\ eng.rules[i].active
    /\ \A j \in 1..(i - 1) :
           eng.rules[j].active => ~RuleTriggers(eng.rules[j], eng.riskScore, eng.positions)

\* the i-th rule of the list has made the decision
DecidedBy(i) ==
    /\ eng.decision.source = "RULE"
    /\ eng.decision.ruleId = eng.rules[i].id

HasDebt(venus) == \E k \in 1..Len(venus.markets) : venus.markets[k].borrowBalance > 0

Decided == eng.stage \in {"decided", "executed"}

\* C15: an active HEALTH_FACTOR rule that is reached triggers exactly when
\* the health factor hf of an account with debt is below threshold/100,
\* hf = 0 included; the decision is REPAY, with urgency CRITICAL if hf < 1.1
\* and HIGH otherwise.
C15_HealthFactorRule ==
    Decided =>
        \A i \in 1..Len(eng.rules) :
            (/\ Reached(i)
             /\ eng.rules[i].ruleType = VENUS_HEALTH_FACTOR
             /\ HasDebt(eng.positions.venus)) =>
                LET hf == eng.positions.venus.healthFactor
                    below == hf * 100 < eng.rules[i].threshold * HFUnit
                IN /\ DecidedBy(i) <=> below
                   /\ below =>
                          /\ eng.decision.actionType = VENUS_REPAY
                          /\ eng.decision.urgency =
                                 IF hf * 10 < 11 * HFUnit THEN "CRITICAL" ELSE "HIGH"

\* C16: the REPAY decision of a HEALTH_FACTOR rule targets the market with
\* the largest borrow balance, and its amount is 25% of that balance,
\* whatever the order of the markets.
C16_RepayLargestBorrow ==
    Decided =>
        \A i \in 1..Len(eng.rules) :
            (DecidedBy(i) /\ eng.rules[i].ruleType = VENUS_HEALTH_FACTOR) =>
                LET markets == eng.positions.venus.markets
                IN \E k \in 1..Len(markets) :
                       /\ \A n \in 1..Len(markets) :
                              markets[n].borrowBalance <= markets[k].borrowBalance
                       /\ eng.decision.params.tokenAddress = markets[k].vTokenAddress
                       /\ eng.decision.params.amount = markets[k].borrowBalance * 25

\* C17: an active IL_THRESHOLD rule that is reached triggers exactly when
\* some position has a loss strictly above threshold/100 percent; the
\* decision is WITHDRAW_LP with the positionId and the liquidity of the first
\* such position, with urgency CRITICAL if its loss is above 10% and HIGH
\* otherwise.
C17_ILRule ==
    Decided =>
        \A i \in 1..Len(eng.rules) :
            (Reached(i) /\ eng.rules[i].ruleType = IL_THRESHOLD) =>
                LET lp == eng.positions.lp
                    Over == {k \in 1..Len(lp) :
                                 lp[k].impermanentLoss * 100 > eng.rules[i].threshold * ILUnit}
                IN /\ DecidedBy(i) <=> Over # {}
                   /\ Over # {} =>
                          LET first == CHOOSE k \in Over : \A n \in Over : k <= n
                          IN /\ eng.decision.actionType = LP_WITHDRAW
                             /\ eng.decision.params.positionId = lp[first].positionId
                             /\ eng.decision.params.liquidity = lp[first].liquidity
                             /\ eng.decision.urgency =
                                    IF lp[first].impermanentLoss > 10 * ILUnit
                                    THEN "CRITICAL" ELSE "HIGH"

\* a rule with the threshold 5% has decided on a list whose first position
\* has a loss of 3% and whose second has one of 12%
C17_Witness ==
    /\ eng.stage = "decided"
    /\ Len(eng.positions.lp) = 2
    /\ eng.positions.lp[1].impermanentLoss = 3 * ILUnit
    /\ \E i \in 1..Len(eng.rules) :
           /\ DecidedBy(i)
           /\ eng.rules[i].ruleType = IL_THRESHOLD
           /\ eng.rules[i].threshold = 500
    /\ eng.decision.params.positionId = "9"
    /\ eng.decision.urgency = "CRITICAL"

\* C18: an active PORTFOLIO_DROP rule that is reached triggers exactly when
\* the total is at least threshold/100; the decision is EMERGENCY_EXIT with
\* urgency CRITICAL.
C18_PortfolioDropRule ==
    Decided =>
        \A i \in 1..Len(eng.rules) :
            (Reached(i) /\ eng.rules[i].ruleType = PORTFOLIO_DROP) =>
                LET atLeast == eng.riskScore.totalScore * 100 >= eng.rules[i].threshold
                IN /\ DecidedBy(i) <=> atLeast
                   /\ atLeast =>
                          /\ eng.decision.actionType = EMERGENCY_EXIT
                          /\ eng.decision.urgency = "CRITICAL"

\* a rule with the threshold 4000 has decided at a total of exactly 40
C18_Witness ==
    /\ eng.stage = "decided"
    /\ eng.riskScore.totalScore = 40
    /\ \E i \in 1..Len(eng.rules) :
           /\ DecidedBy(i)
           /\ eng.rules[i].ruleType = PORTFOLIO_DROP
           /\ eng.rules[i].threshold = 4000
    /\ eng.decision.actionType = EMERGENCY_EXIT

\* C19: an active CONCENTRATION_LIMIT rule that is reached triggers exactly
\* when maxConcentration is strictly above threshold/100; the decision is
\* REBALANCE, with urgency HIGH if maxConcentration is above 80 and MEDIUM
\* otherwise.
C19_ConcentrationRule ==
    Decided =>
        \A i \in 1..Len(eng.rules) :
            (Reached(i) /\ eng.rules[i].ruleType = CONCENTRATION_LIMIT) =>
                LET c == eng.positions.wallet.maxConcentration
                    above == c * 100 > eng.rules[i].threshold * PctUnit
                IN /\ DecidedBy(i) <=> above
                   /\ above =>
                          /\ eng.decision.actionType = REBALANCE
                          /\ eng.decision.urgency =
                                 IF c > 80 * PctUnit THEN "HIGH" ELSE "MEDIUM"

\* a rule with the threshold 4000 has decided on a wallet whose largest
\* allocation is exactly 80%, with urgency MEDIUM
C19_Witness ==
    /\ eng.stage = "decided"
    /\ eng.positions.wallet.maxConcentration = 80 * PctUnit
    /\ \E i \in 1..Len(eng.rules) :
           /\ DecidedBy(i)
           /\ eng.rules[i].ruleType = CONCENTRATION_LIMIT
           /\ eng.rules[i].threshold = 4000
    /\ eng.decision.urgency = "MEDIUM"

\* C20: when no active rule matches, a health factor below 1.1 gives an
\* advisory REPAY; otherwise a total of at least 60 gives ALERT_ONLY with
\* urgency HIGH; otherwise ALERT_ONLY with urgency LOW; the source is DEFAULT
\* and shouldAct is false in the three cases.
C20_Defaults ==
    (/\ Decided
     /\ \A i \in 1..Len(eng.rules) :
            eng.rules[i].active => ~ConditionMet(eng.rules[i], eng.riskScore, eng.positions)) =>
        /\ eng.decision.source = "DEFAULT"
        /\ ~Truthy(eng.decision.shouldAct)
        /\ IF eng.positions.venus.healthFactor * 10 < 11 * HFUnit
           THEN eng.decision.actionType = VENUS_REPAY
           ELSE IF eng.riskScore.totalScore >= 60
           THEN eng.decision.actionType = ALERT_ONLY /\ eng.decision.urgency = "HIGH"
           ELSE eng.decision.actionType = ALERT_ONLY /\ eng.decision.urgency = "LOW"

ManualReview ==
    {"Emergency exit requires manual review. Alert sent.",
     "Rebalance requires manual review. Alert sent."}

\* C21: executeDecision on an EMERGENCY_EXIT or REBALANCE decision, shouldAct
\* set or not, makes no external call and hands no record to the log; with
\* shouldAct set its result has success = false and an error that asks for a
\* manual review.  The scans of the monitor with such a decision make no
\* call either.
C21_ExitAndRebalanceNotExecuted ==
    /\ (eng.stage = "executed"
           /\ eng.decision.actionType \in {EMERGENCY_EXIT, REBALANCE}) =>
           /\ eng.execution.calls = <<>>
           /\ eng.execution.audit = NoAudit
           /\ ~eng.execution.threw
           /\ Truthy(eng.decision.shouldAct) =>
                  /\ eng.execution.result.success = "false"
                  /\ eng.execution.result.error \in ManualReview
                  /\ eng.execution.result.txHash = ""
    /\ \A s \in DOMAIN scans :
           scans[s].decision.actionType \in {EMERGENCY_EXIT, REBALANCE} =>
               /\ scans[s].calls = <<>>
               /\ scans[s].pending.calls = <<>>
               /\ scans[s].audit = NoAudit

\* executeDecision has returned for an EMERGENCY_EXIT decision of a rule that
\* executes, with a signer and the log configured
C21_Witness ==
    /\ eng.stage = "executed"
    /\ eng.decision.actionType = EMERGENCY_EXIT
    /\ eng.decision.source = "RULE"
    /\ eng.decision.shouldAct = "true"
    /\ env.signer = "ok" /\ env.shieldLog
    /\ eng.execution.result.success = "false"

KnownActions == {"VENUS_REPAY", "LP_WITHDRAW", "EMERGENCY_EXIT", "REBALANCE"}

\* C22: a decision that is ALERT_ONLY, by its type or because the action name
\* of the advisor is not a known one, whatever its shouldAct and its source,
\* causes no external call and no record handed to the log, in every scan of
\* the monitor and in a direct call of executeDecision.
C22_AlertOnlyHasNoSideEffect ==
    /\ \A s \in DOMAIN scans :
           (scans[s].decision # NoDecision
               /\ (scans[s].decision.actionType = ALERT_ONLY
                      \/ scans[s].decision.actionName \notin KnownActions)) =>
               /\ scans[s].calls = <<>>
               /\ scans[s].pending.calls = <<>>
               /\ scans[s].audit = NoAudit
               /\ scans[s].pc # "executing"
    /\ (eng.stage = "executed"
           /\ (eng.decision.actionType = ALERT_ONLY
                  \/ eng.decision.actionName \notin KnownActions)) =>
           /\ eng.execution.calls = <<>>
           /\ eng.execution.audit = NoAudit
           /\ ~eng.execution.threw

\* a scan has completed on a decision of the advisor with an unknown action
\* name and shouldAct set, with a signer and the log configured
C22_Witness ==
    \E s \in DOMAIN scans :
        /\ scans[s].pc = "done"
        /\ scans[s].decision.source = "AI"
        /\ scans[s].decision.actionName = "SELL_ALL"
        /\ scans[s].decision.actionType = ALERT_ONLY
        /\ scans[s].decision.shouldAct = "true"
        /\ env.signer = "ok" /\ env.shieldLog

\* the number of logAction calls among calls
LogCalls(calls) == Cardinality({i \in 1..Len(calls) : calls[i] = "logAction"})

\* the log of an execution that has returned result after the external calls
\* calls, on a decision made at the total totalScore
AuditedOnce(decision, totalScore, result, calls, audit) ==
    /\ LogCalls(calls) <= 1
    /\ LogCalls(calls) = 1 =>
           /\ result.success = "true"
           /\ Len(calls) >= 2
           /\ calls[Len(calls)] = "logAction"
           /\ audit.actionType = decision.actionType
           /\ audit.riskScoreBefore = totalScore * 100
           /\ audit.riskScoreAfter * 10 = audit.riskScoreBefore * 7
    /\ (result.success = "true" /\ env.shieldLog) => LogCalls(calls) = 1
    /\ result.success # "true" => (LogCalls(calls) = 0 /\ audit = NoAudit)
    /\ ~env.shieldLog => (LogCalls(calls) = 0 /\ audit = NoAudit)

\* C23: the log is called exactly once for a protective action that
\* succeeded, after the calls of the action, and never for an action that
\* failed or was not attempted; the record has the total before the action
\* and, as the one after, 70% of it (without a log contract no call can be
\* made).
C23_AuditOncePerSuccess ==
    /\ (eng.stage = "executed" /\ ~eng.execution.threw) =>
           AuditedOnce(eng.decision, eng.riskScore.totalScore, eng.execution.result,
                       eng.execution.calls, eng.execution.audit)
    /\ \A s \in DOMAIN scans :
           /\ scans[s].pc = "done" =>
                  AuditedOnce(scans[s].decision, scans[s].totalScore,
                              scans[s].executionResult, scans[s].calls, scans[s].audit)
           /\ scans[s].pc = "executing" =>
                  /\ AuditedOnce(scans[s].decision, scans[s].totalScore,
                                 scans[s].pending.result, scans[s].pending.calls,
                                 scans[s].pending.audit)
                  /\ scans[s].calls = SubSeq(scans[s].pending.calls, 1, Len(scans[s].calls))
           /\ scans[s].pc = "failed" => scans[s].calls = <<>>

\* a scan has completed after a repayment of two calls followed by the log
\* call, at a total above 0
C23_Witness ==
    \E s \in DOMAIN scans :
        /\ scans[s].pc = "done"
        /\ scans[s].calls = <<"approve", "repayBorrow", "logAction">>
        /\ scans[s].executionResult.success = "true"
        /\ scans[s].totalScore > 0
        /\ scans[s].audit.riskScoreBefore = scans[s].totalScore * 100

\* executeDecision returns for the decision what it returns when the log
\* contract is configured and its call succeeds, whatever the log does
SameResultAsLogged(decision, totalScore) ==
    \A out \in Outcomes :
        LET e == executeDecision(decision, totalScore, env, out)
            logged == executeDecision(decision, totalScore,
                                      [env EXCEPT !.shieldLog = TRUE],
                                      [out EXCEPT !.log = TRUE])
        IN /\ e.result = logged.result
           /\ e.threw = logged.threw
           /\ LogCalls(e.calls) <= 1
           /\ \A i \in 1..Len(e.calls) : e.calls[i] = "logAction" => i = Len(e.calls)
           /\ e.threw => env.signer = "bad"

\* C24: a log that fails (no log contract, or a logAction call that fails)
\* leaves the execution result as it is when the log succeeds: same success,
\* same transaction of the protective action; the log call is not repeated,
\* no call follows it, and executeDecision does not throw because of it.
C24_AuditFailureKeepsResult ==
    /\ eng.stage \in {"decided", "executed"} =>
           SameResultAsLogged(eng.decision, eng.riskScore.totalScore)
    /\ eng.stage = "executed" =>
           eng.execution.result \in
               {executeDecision(eng.decision, eng.riskScore.totalScore,
                                [env EXCEPT !.shieldLog = TRUE],
                                [out EXCEPT !.log = TRUE]).result : out \in Outcomes}
    /\ \A s \in DOMAIN scans :
           scans[s].pc = "executing" =>
               /\ SameResultAsLogged(scans[s].decision, scans[s].totalScore)
               /\ LogCalls(scans[s].pending.calls) <= 1

\* a repayment has succeeded without a log contract: the result has
\* success = true and the transaction of the repayment
C24_Witness ==
    /\ eng.stage = "executed"
    /\ ~env.shieldLog
    /\ eng.decision.actionType = VENUS_REPAY
    /\ eng.execution.result.success = "true"
    /\ eng.execution.result.txHash = "tx:repayBorrow"
    /\ eng.execution.audit = NoAudit

\* the two legs of a withdrawal as executeDecision makes them for the
\* outcomes out: in order, each at most once, success only with both
WithdrawLegs(decision, totalScore, out) ==
    LET e == executeDecision(decision, totalScore, env, out)
        legs == SelectSeq(e.calls, LAMBDA c : c # "logAction")
    IN /\ ~e.threw
       /\ legs = IF out.decrease THEN <<"decreaseLiquidity", "collect">>
                 ELSE <<"decreaseLiquidity">>
       /\ e.result.success = IF out.decrease /\ out.collect THEN "true" ELSE "false"

\* C25: WITHDRAW_LP calls decreaseLiquidity and then collect, each at most
\* once; its result is a success only if both calls succeeded; and the result
\* of a withdrawal whose first call succeeded and whose second failed differs
\* from the result of one whose first call failed.
C25_WithdrawPartialFailureReported ==
    (/\ eng.stage \in {"decided", "executed"}
     /\ eng.decision.actionType = LP_WITHDRAW
     /\ Truthy(eng.decision.shouldAct)
     /\ eng.decision.params.positionId # ""
     /\ eng.decision.params.liquidity # ""
     /\ env.signer = "ok") =>
        /\ \A out \in Outcomes :
               WithdrawLegs(eng.decision, eng.riskScore.totalScore, out)
        /\ \A first, second \in Outcomes :
               (~first.decrease /\ second.decrease /\ ~second.collect) =>
                   executeDecision(eng.decision, eng.riskScore.totalScore, env,
                                   first).result
                   # executeDecision(eng.decision, eng.riskScore.totalScore, env,
                                     second).result

CallsOf(calls, name) == Cardinality({i \in 1..Len(calls) : calls[i] = name})

\* what executeDecision returns for a repayment when its calls have the
\* outcomes out
RepayReported(decision, totalScore, out) ==
    LET e == executeDecision(decision, totalScore, env, out)
        p == decision.params
        missing == p.tokenAddress = "" \/ p.amount = -1
        fails == ~out.repay \/ (p.tokenAddress # VBNB /\ ~out.approve)
    IN /\ ~e.threw
       /\ CallsOf(e.calls, "repayBorrow") <= 1
       /\ CallsOf(e.calls, "approve") <= 1
       /\ missing =>
              /\ e.calls = <<>>
              /\ e.result.success = "false"
              /\ e.result.error = "Missing token address or amount"
       /\ (~missing /\ env.signer = "none") =>
              /\ e.calls = <<>>
              /\ e.result.success = "false"
              /\ e.result.error # ""
       /\ (~missing /\ env.signer = "ok") =>
              IF fails
              THEN /\ e.result.success = "false"
                   /\ e.result.error # ""
                   /\ e.result.txHash = ""
                   /\ LogCalls(e.calls) = 0
              ELSE e.result.success = "true"

\* C26: a REPAY whose call fails (no signer, the approval or the repayment
\* failing) or whose decision has no token address or no amount is returned
\* with success = false and an error, and repayBorrow is called at most once
\* in a call of executeDecision: a failed repayment is not repeated.
C26_RepayFailureReportedOnce ==
    /\ (/\ eng.stage \in {"decided", "executed"}
        /\ eng.decision.actionType = VENUS_REPAY
        /\ Truthy(eng.decision.shouldAct)
        /\ env.signer # "bad") =>
           \A out \in Outcomes :
               RepayReported(eng.decision, eng.riskScore.totalScore, out)
    /\ (eng.stage = "executed" /\ eng.decision.actionType = VENUS_REPAY) =>
           /\ CallsOf(eng.execution.calls, "repayBorrow") <= 1
           /\ eng.execution.result.success = "false" =>
                  eng.execution.result.error # ""
    /\ \A s \in DOMAIN scans :
           scans[s].decision.actionType = VENUS_REPAY =>
               /\ CallsOf(scans[s].calls, "repayBorrow") <= 1
               /\ CallsOf(scans[s].pending.calls, "repayBorrow") <= 1

\* executeDecision has returned success = false with an error for a
\* repayment whose approval succeeded and whose repayBorrow call failed
C26_Witness ==
    /\ eng.stage = "executed"
    /\ eng.decision.actionType = VENUS_REPAY
    /\ eng.execution.calls = <<"approve", "repayBorrow">>
    /\ eng.execution.result.success = "false"
    /\ eng.execution.result.error # ""

\* the scan s has completed and its record is in the history of its address
Recorded(s) ==
    LET f == scans[s]
        addr == toLowerCase(f.address)
    IN /\ "scanComplete" \in Elements(f.events)
       /\ "scanError" \notin Elements(f.events)
       /\ Has(scanHistory, addr)
       /\ \E i \in 1..Len(scanHistory[addr]) :
              /\ scanHistory[addr][i].scan = s
              /\ scanHistory[addr][i].decision = f.decision
              /\ scanHistory[addr][i].executionResult = f.executionResult

\* C27: a scan whose execution was returned as failed by the executor still
\* completes: its record, with the decision and the failed result, is in the
\* history of the address, scanComplete is emitted and scanError is not.  A
\* scan fails only while fetching or when the executor throws, and never once
\* the external calls of its execution have begun.
C27_FailedExecutionStillRecorded ==
    /\ [](\A s \in DOMAIN scans :
              /\ (scans[s].pc = "done" /\ scans[s].executionResult.success = "false") =>
                     /\ Recorded(s)
                     /\ scans[s].executionResult.executed
                     /\ scans[s].executionResult.error # ""
              /\ (scans[s].pc = "failed" /\ scans[s].decision # NoDecision) =>
                     env.signer = "bad")
    /\ [][\A s \in DOMAIN scans :
              scans[s].pc = "executing" =>
                  /\ scans'[s].pc \in {"executing", "done"}
                  /\ (scans'[s].pc = "done"
                         /\ scans[s].pending.result.success = "false") =>
                         /\ scans'[s].executionResult = scans[s].pending.result
                         /\ scanHistory'[toLowerCase(scans[s].address)]
                                [Len(scanHistory'[toLowerCase(scans[s].address)])]
                            = ScanResult(s, scans'[s])]_vars

\* a scan has completed after a repayBorrow call that failed
C27_Witness ==
    \E s \in DOMAIN scans :
        /\ scans[s].pc = "done"
        /\ scans[s].decision.actionType = VENUS_REPAY
        /\ scans[s].calls = <<"repayBorrow">>
        /\ scans[s].executionResult.success = "false"
        /\ Recorded(s)

\* the scan s takes a step
Stepping(s) == scans'[s] # scans[s]

\* C28: the scans of different addresses are independent.  Whatever scans of
\* other addresses are in flight, a live interval can fire and a scan that is
\* fetching can go on; the step of a scan changes no interval and no entry,
\* and the history and the latest scan of an address change only in a step
\* in which a scan of that address completes.
C28_ScansIndependent ==
    /\ [](\A t \in DOMAIN timers :
              (timers[t].live /\ Len(scans) < MaxScans) => ENABLED Tick(t))
    /\ [](\A s \in DOMAIN scans :
              scans[s].pc = "fetching" => ENABLED FetchDone(s, SafePositions, AllSucceed))
    /\ [][/\ \A s \in DOMAIN scans :
                 Stepping(s) =>
                     /\ timers' = timers
                     /\ activeMonitors' = activeMonitors
                     /\ \A r \in DOMAIN scans \ {s} : ~Stepping(r)
          /\ \A b \in {toLowerCase(u) : u \in UserAddresses} :
                 Completing(b) = {} =>
                     /\ Has(scanHistory', b) = Has(scanHistory, b)
                     /\ Has(scanHistory, b) => scanHistory'[b] = scanHistory[b]
                     /\ Has(latestScans', b) = Has(latestScans, b)
                     /\ Has(latestScans, b) => latestScans'[b] = latestScans[b]]_vars

\* the first scan of 0xaa has not returned from its fetch, while 0xbb, started
\* after it, has completed its immediate scan and the scan of a tick
C28_Witness ==
    /\ Len(scans) = 3
    /\ toLowerCase(scans[1].address) = "0xaa" /\ scans[1].pc = "fetching"
    /\ scans[2].address = "0xBB" /\ scans[2].pc = "done" /\ scans[2].timer = 0
    /\ scans[3].address = "0xBB" /\ scans[3].pc = "done" /\ scans[3].timer # 0
    /\ Len(scanHistory["0xbb"]) = 2
    /\ ~Has(scanHistory, "0xaa")
    /\ \A t \in DOMAIN timers : timers[t].live

\* C29: after a stop of an address no scan of it is started until a later
\* start succeeds: a live interval belongs to a monitored address, and a
\* scan is started only by a start or by the live interval of its address.
\* The stop leaves the scans in flight as they are, and they run on as if the
\* address were monitored: the next call of an execution can return, and the
\* scan that completes has its execution result, its log record and its
\* record at the end of the history.
C29_StopLetsScanFinish ==
    /\ [](/\ \A t \in DOMAIN timers :
                 timers[t].live =>
                     /\ Has(activeMonitors, toLowerCase(timers[t].address))
                     /\ activeMonitors[toLowerCase(timers[t].address)].intervalId = t
          /\ \A s \in DOMAIN scans :
                 /\ scans[s].pc = "executing" => ENABLED CallDone(s)
                 /\ scans[s].pc = "fetching" =>
                        ENABLED FetchDone(s, SafePositions, AllSucceed))
    /\ [][/\ Len(scans') > Len(scans) =>
                 LET n == scans'[Len(scans')]
                     addr == toLowerCase(n.address)
                 IN /\ Len(scans') = Len(scans) + 1
                    /\ Has(activeMonitors', addr)
                    /\ n.timer # 0 =>
                           /\ timers[n.timer].live
                           /\ Has(activeMonitors, addr)
                           /\ activeMonitors[addr].intervalId = n.timer
                    /\ n.timer = 0 => ~Has(activeMonitors, addr)
          /\ activeMonitors' # activeMonitors => SubSeq(scans', 1, Len(scans)) = scans
          /\ \A s \in DOMAIN scans :
                 (scans[s].pc = "executing" /\ scans'[s].pc # "executing") =>
                     /\ scans'[s].pc = "done"
                     /\ scans'[s].calls = scans[s].pending.calls
                     /\ scans'[s].executionResult = scans[s].pending.result
                     /\ scans'[s].audit = scans[s].pending.audit
                     /\ scanHistory'[toLowerCase(scans[s].address)]
                            [Len(scanHistory'[toLowerCase(scans[s].address)])]
                        = ScanResult(s, scans'[s])]_vars

\* the address has been stopped while its scan was executing: the repayment
\* has been made, the log call is still to be made
C29_Witness ==
    /\ activeMonitors = <<>>
    /\ reply = [op |-> "stop", success |-> TRUE]
    /\ \A t \in DOMAIN timers : ~timers[t].live
    /\ \E s \in DOMAIN scans :
           /\ scans[s].pc = "executing"
           /\ scans[s].calls = <<"repayBorrow">>
           /\ scans[s].pending.calls = <<"repayBorrow", "logAction">>

\* the scan that the start which made the interval t ran at once: the t-th
\* of the scans not made by an interval
ImmediateOf(t) ==
    {s \in DOMAIN scans :
         /\ scans[s].timer = 0
         /\ Cardinality({r \in 1..s : scans[r].timer = 0}) = t}

\* C30: the scan that a successful start runs at once has completed, with its
\* record or its scanError, before the scan of the first tick of the interval
\* of that start begins: whenever a scan made by an interval exists, the
\* immediate scan of the same start is done or failed.
C30_ImmediateScanCompletesFirst ==
    \A s \in DOMAIN scans :
        scans[s].timer # 0 =>
            \A i \in ImmediateOf(scans[s].timer) :
                /\ i < s
                /\ scans[i].pc \in {"done", "failed"}

\* the amounts of the logged actions of one sender, in the order of the log
RECURSIVE AmountsOf(_, _)
AmountsOf(actions, sender) ==
    IF actions = <<>> THEN <<>>
    ELSE (IF Head(actions).user = sender THEN <<Head(actions).amountProtected>>
          ELSE <<>>) \o AmountsOf(Tail(actions), sender)

\* C32: the log is append-only.  A step never shortens the list of actions
\* and leaves every action logged before at its index with all its fields,
\* and every sender's list of ids only grows at its end; in every state, for
\* every sender, actionsCount is the number of the sender's logged actions,
\* totalProtected is the sum of their amounts, and the sender's ids are the
\* indices of exactly these actions.
C32_LogAppendOnly ==
    /\ [][/\ Len(chain'.log.actions) >= Len(chain.log.actions)
          /\ \A i \in 1..Len(chain.log.actions) :
                 chain'.log.actions[i] = chain.log.actions[i]
          /\ \A a \in Senders :
                 LET before == IdsOf(chain.log.userActions, a)
                     after == IdsOf(chain'.log.userActions, a)
                 IN /\ Len(after) >= Len(before)
                    /\ SubSeq(after, 1, Len(before)) = before]_vars
    /\ [](\A a \in Senders :
              LET mine == AmountsOf(chain.log.actions, a)
              IN /\ Balance(chain.log.actionsCount, a) = Len(mine)
                 /\ Balance(chain.log.totalProtected, a) = Sum(mine)
                 /\ Len(getUserActions(chain.log, a)) = Len(mine)
                 /\ \A i \in 1..Len(mine) : getUserActions(chain.log, a)[i].user = a)

\* one sender has logged 1000000 in two actions, its first and third of the
\* log, and another sender the action between them
C32_Witness ==
    /\ Len(chain.log.actions) = 3
    /\ \E a \in Senders :
           /\ Balance(chain.log.actionsCount, a) = 2
           /\ Balance(chain.log.totalProtected, a) = 1000000
           /\ chain.log.actions[1].user = a
           /\ chain.log.actions[1].amountProtected = 400000
           /\ chain.log.actions[2].user # a
           /\ chain.log.actions[3].user = a

\* the step takes amount of token out of the recorded deposit of user by a
\* withdrawal of the user or by executeProtection sent by the authorized agent
TakenByOwnerOrAgent(user, token) ==
    \/ \E amount \in VaultAmounts :
           chain'.vault = withdrawToken(chain.vault, user, token, amount, TRUE)
    \/ \E tokenOut \in Tokens, amountIn \in VaultAmounts, router \in Routers,
          amountOut \in {0, 500000} :
           chain'.vault = executeProtection(chain.vault, chain.vault.shieldAgent, user,
                                            token, tokenOut, amountIn, router,
                                            amountOut)

\* C33: the vault is non-custodial.  A step that lowers the recorded deposit
\* of a user in a token is a withdrawal of that user or an executeProtection
\* of the authorized agent, and every router the vault has given an allowance
\* and called is the approved swap router, never an address the agent chose.
C33_NonCustodial ==
    /\ [][\A user \in Accounts, token \in Tokens :
              Balance(chain'.vault.tokenDeposits, <<user, token>>)
                  < Balance(chain.vault.tokenDeposits, <<user, token>>)
              => TakenByOwnerOrAgent(user, token)]_vars
    /\ [](chain.vault.approved \subseteq {PancakeV3Router})

\* the last action of the log, as the history query reports an action
LastLogged(log) ==
    LET a == log.actions[Len(log.actions)]
    IN [actionType |-> ActionNames[a.actionType + 1],
        riskScoreBefore |-> a.riskScoreBefore, amountProtected |-> a.amountProtected,
        timestamp |-> a.timestamp]

\* C35: once the logAction transaction of the protective action a scan took
\* for its address is mined, the action history of that address has the
\* action: an entry with its type, risk score, amount and time.
C35_LoggedActionInHistory ==
    [][\A s \in DOMAIN scans :
           (/\ scans[s].pc = "executing"
            /\ scans'[s].pc = "done"
            /\ Len(chain'.log.actions) = Len(chain.log.actions) + 1)
           => \E i \in DOMAIN getActionHistory(scans[s].address)' :
                  LET h == getActionHistory(scans[s].address)'[i]
                  IN /\ h.actionType = LastLogged(chain.log').actionType
                     /\ h.riskScoreBefore = LastLogged(chain.log').riskScoreBefore
                     /\ h.amountProtected = LastLogged(chain.log').amountProtected
                     /\ h.timestamp = LastLogged(chain.log').timestamp]_vars

\* the rules the server keeps, of every address
StoredRuleSet == UNION {Elements(store.rules[a]) : a \in DOMAIN store.rules}

\* the finished scans in which the rule of this id fired
FiringsOf(ruleId) ==
    {s \in DOMAIN scans : /\ scans[s].pc = "done"
                          /\ scans[s].decision.source = "RULE"
                          /\ scans[s].decision.ruleId = ruleId}

\* C31: a rule that fired in a scan is reported to the rule store.  For every
\* stored rule, each finished scan whose decision has source RULE and the
\* rule's id has either raised the rule's triggerCount by one or issued the
\* markTriggered call that is going to.
C31_FiringNotifiesRuleStore ==
    \A r \in StoredRuleSet :
        r.triggerCount
        + Cardinality({s \in FiringsOf(r.id) : "markTriggered" \in Elements(scans[s].calls)})
            >= Cardinality(FiringsOf(r.id))

\* the rule of this id was created and is no longer stored
Deleted(ruleId) ==
    /\ \E n \in 1..store.now : LocalIds[n] = ruleId
    /\ \A r \in StoredRuleSet : r.id # ruleId

\* the decision a scan cycle with these rules returns when the providers
\* report these positions
DecisionOn(rules, positions) ==
    evaluateAndDecide(calculateRiskScore(positions.venus, positions.lp, positions.wallet),
                      positions, rules, env.apiKey, NoResponse)

\* C40: a deleted rule fires no more.  A scan cycle that begins when a rule
\* has been deleted returns, whatever the providers report to it, a decision
\* that does not carry the rule's id.
C40_DeletedRuleNeverFires ==
    [][\A n \in 1..MaxCreated :
           Deleted(LocalIds[n]) /\ Len(scans') = Len(scans) + 1
           => \A p \in {SafePositions, RiskyPositions} :
                  DecisionOn(scans'[Len(scans')].rules, p).ruleId # LocalIds[n]]_vars

\* the scan cycle has begun and has neither completed nor failed
Running(s) == scans[s].pc \in {"fetching", "advising", "executing"}

\* C34: the scan cycles of one address never overlap.  No two cycles of the
\* same address are running in the same state, so no two of them have issued
\* the same protective call while both are running.
C34_ScansOfAddressNeverOverlap ==
    \A s1 \in DOMAIN scans, s2 \in DOMAIN scans :
        (/\ s1 # s2
         /\ toLowerCase(scans[s1].address) = toLowerCase(scans[s2].address)
         /\ Running(s1))
        => ~Running(s2)

\* how many times the scan has published the event
Published(s, event) ==
    Cardinality({i \in DOMAIN scans[s].events : scans[s].events[i] = event})

\* the executor was called in the scan
ExecutorInvoked(s) ==
    Truthy(scans[s].decision.shouldAct) /\ scans[s].decision.actionType # ALERT_ONLY

\* C37: a scan cycle ends with exactly one of scanComplete and scanError, and
\* publishes neither while it runs.  A cycle that ended with scanComplete has
\* published criticalRisk once if its level is CRITICAL and never otherwise,
\* elevatedRisk likewise for ELEVATED, and actionExecuted once if the
\* executor was called (shouldAct and not ALERT_ONLY) and never otherwise,
\* whether the action succeeded or not; actionExecuted comes before
\* scanComplete, which is published with the record stored.
C37_EventsOfScanCycle ==
    \A s \in DOMAIN scans :
        /\ Running(s) => Published(s, "scanComplete") + Published(s, "scanError") = 0
        /\ scans[s].pc = "failed" =>
               /\ Published(s, "scanError") = 1
               /\ Published(s, "scanComplete") = 0
        /\ scans[s].pc = "done" =>
               /\ Published(s, "scanComplete") = 1
               /\ Published(s, "scanError") = 0
               /\ Recorded(s)
               /\ Published(s, "criticalRisk")
                      = (IF scans[s].level = "CRITICAL" THEN 1 ELSE 0)
               /\ Published(s, "elevatedRisk")
                      = (IF scans[s].level = "ELEVATED" THEN 1 ELSE 0)
               /\ Published(s, "actionExecuted") = (IF ExecutorInvoked(s) THEN 1 ELSE 0)
               /\ ExecutorInvoked(s) =>
                      /\ scans[s].executionResult.present
                      /\ scans[s].events[1] = "actionExecuted"
                      /\ scans[s].events[2] = "scanComplete"

\* a scan of level CRITICAL has completed after a repayment that failed, with
\* actionExecuted, scanComplete and criticalRisk published in this order
C37_Witness ==
    \E s \in DOMAIN scans :
        /\ scans[s].pc = "done"
        /\ scans[s].level = "CRITICAL"
        /\ scans[s].executionResult.success = "false"
        /\ scans[s].calls = <<"repayBorrow">>
        /\ scans[s].events = <<"actionExecuted", "scanComplete", "criticalRisk">>

\* C38: for every address with a non-empty history the latest-scan entry is
\* the last element of the history, and the two maps have the same addresses;
\* a step changes the latest-scan entry of an address exactly when it changes
\* the history of the address, so no state lies between the two updates.
C38_LatestIsLastOfHistory ==
    /\ [](/\ DOMAIN latestScans = DOMAIN scanHistory
          /\ \A a \in DOMAIN scanHistory :
                 /\ scanHistory[a] # <<>>
                 /\ latestScans[a] = scanHistory[a][Len(scanHistory[a])])
    /\ [][\A a \in DOMAIN scanHistory' :
              (Has(latestScans, a) /\ latestScans'[a] = latestScans[a])
              <=> (Has(scanHistory, a) /\ scanHistory'[a] = scanHistory[a])]_vars

\* the history of 0xaa is full, a second scan has replaced the latest entry of
\* the first, and the monitor has been stopped and started again
C38_Witness ==
    /\ Has(scanHistory, "0xaa")
    /\ Len(scanHistory["0xaa"]) = HistoryCap
    /\ Len(timers) = 2
    /\ \E s1 \in DOMAIN scans, s2 \in DOMAIN scans :
           /\ s1 # s2
           /\ scans[s1].pc = "done" /\ scans[s2].pc = "done"
           /\ scanHistory["0xaa"][HistoryCap - 1].scan = s1
           /\ latestScans["0xaa"].scan = s2

\* C39: a scan cycle that fails stores nothing.  No step of a scan other than
\* its completion changes the history, the latest-scan entry, the monitor
\* entry or the interval of any address, the step to scanError included;
\* every record of the history made by a scan of this run is the record of a
\* completed scan, and a failed scan has no record.
C39_FailedScanStoresNothing ==
    /\ [][\A s \in DOMAIN scans :
              (Stepping(s) /\ scans'[s].pc # "done") =>
                  UNCHANGED <<scanHistory, latestScans, activeMonitors, timers>>]_vars
    /\ [](\A a \in DOMAIN scanHistory : \A i \in DOMAIN scanHistory[a] :
              scanHistory[a][i].scan \in DOMAIN scans =>
                  scans[scanHistory[a][i].scan].pc = "done")

\* a scan failed while fetching and another when its executor threw, after a
\* scan of the address had completed: the history has the one record
C39_Witness ==
    /\ Len(scans) = 3
    /\ scans[1].pc = "done"
    /\ scans[2].pc = "failed" /\ scans[2].decision = NoDecision
    /\ scans[3].pc = "failed" /\ scans[3].decision.source = "RULE"
    /\ Len(scanHistory["0xaa"]) = 1
    /\ latestScans["0xaa"].scan = 1

\* the first JSON object of a reply text: from the first "{" to the "}" closing
\* it; <<>> when the text has no well-formed object there
FirstObject(text) ==
    LET opens == PositionsOf(text, "{")
    IN IF opens = {} \/ ObjectEnd(text, Least(opens)) = 0 THEN <<>>
       ELSE SubSeq(text, Least(opens), ObjectEnd(text, Least(opens)))

\* a well-formed decision object: an object with members of a recommendation
IsDecisionObject(object) ==
    object # <<>> /\ \E i \in 1..Len(object) : object[i] \in {"A", "B"} /\ DepthAt(object, i) = 1

\* C36: whenever the advisor's reply contains a well-formed decision object,
\* whatever precedes or follows it, braces and further objects included, the
\* decision returned is the one that first object encodes, with source AI
C36_FirstObjectIsDecision ==
    (/\ eng.stage = "decided"
     /\ eng.response.kind = "text"
     /\ ConsultsAdvisor(eng.riskScore, env.apiKey)
     /\ IsDecisionObject(FirstObject(eng.response.text)))
    => /\ eng.decision.source = "AI"
       /\ eng.decision = aiEvaluate(eng.riskScore, eng.positions, env.apiKey,
                                    [kind |-> "json",
                                     object |-> ObjectValue(FirstObject(eng.response.text))])

====
